---- MODULE Spec2Model ----
(***************************************************************************)
(* Model of the oai-to-circuit bridge: the quota store (QuotaManager), the *)
(* key lifecycle overlay, the SSE relay and the chat_completion pipeline.  *)
(***************************************************************************)
EXTENDS Integers, Sequences, FiniteSets, TLC

VARIABLES
    quotas,        \* QuotaManager.quotas: subkey -> model -> limit dict
    usage,         \* rows of the usage table (committed state of the database)
    lifecycle,     \* rows of the key_lifecycle table: subkey -> status
    lock,          \* QuotaManager._lock: the thread holding it, or NoThread
    th,            \* record_usage callers: position, arguments, open connection
    calls,         \* number of record_usage calls started (bounded)
    applied,       \* history: per (subkey, model), sum of the increments record_usage was asked to apply
    started,       \* history: (subkey, model) pairs record_usage was called for
    overlap,       \* history: pairs for which two record_usage calls were in flight together
    resolved,      \* the last answer of _get_limits / is_request_allowed, with its arguments
    names,         \* rows of the subkey_names table: the subkeys that have a name record
    quotas_file,   \* content of quotas.json, which revoke_key rewrites
    require_subkey,\* BridgeConfig.require_subkey
    req,           \* the inbound requests being handled by chat_completion
    arrivals,      \* number of inbound requests received (bounded)
    admin,         \* number of rotate_key operations run (bounded)
    token_cache,   \* the TokenCache of create_app: access_token and expires_at
    now,           \* time.time()
    ticks,         \* number of times the clock has advanced (bounded)
    tk,            \* get_access_token callers: position, time read, answer, result
    tcalls,        \* number of get_access_token calls started (bounded)
    creds,         \* BridgeConfig.circuit_client_id and circuit_client_secret
    splunk_hec,    \* the SplunkHEC of create_app: hec_url, hec_token, hash_subkeys
    hec_sink,      \* the events POSTed to the HEC endpoint, each with the caller it was built for
    dispatched     \* history: per (subkey, model), the requests whose upstream chat POST was issued

vars == <<quotas, usage, lifecycle, lock, th, calls, applied, started, overlap, resolved,
          names, quotas_file, require_subkey, req, arrivals, admin,
          token_cache, now, ticks, tk, tcalls, creds, splunk_hec, hec_sink, dispatched>>

storeVars == <<quotas, usage, lifecycle, names, quotas_file>>
pipeVars == <<require_subkey, req, arrivals, admin, dispatched>>
threadVars == <<lock, th, calls, applied, started, overlap>>
tokenVars == <<token_cache, now, ticks, tk, tcalls, creds>>
hecVars == <<splunk_hec, hec_sink>>

----------------------------------------------------------------------------
(* Bounds *)

NumThreads == 2
MaxCalls == 2
MaxLimit == 2

----------------------------------------------------------------------------
(* Universe of values *)

Subkeys == {"alice", "bob"}
Models == {"gpt-4o", "gpt-4o-mini"}
Wildcard == "*"
Threads == 1..NumThreads
NoThread == 0
LimitKeys == {"requests", "total_tokens"}
Pairs == Subkeys \X Models

Max0(x) == IF x > 0 THEN x ELSE 0

\* The empty dict.
EmptyDict == <<>>

\* (d.get(k) or {}): a missing or empty entry reads as the empty dict.
DictGetOrEmpty(d, k) == IF k \in DOMAIN d THEN d[k] ELSE EmptyDict

\* dict(a); a.update(b)
DictUpdate(a, b) == [k \in (DOMAIN a) \cup (DOMAIN b) |-> IF k \in DOMAIN b THEN b[k] ELSE a[k]]

----------------------------------------------------------------------------
(* QuotaManager: limits *)

GetLimitsWildcardWins(q, subkey, model) ==
    LET sub == DictGetOrEmpty(q, subkey)
        model_limits == DictGetOrEmpty(sub, model)
        wildcard_limits == DictGetOrEmpty(sub, Wildcard)
    IN  DictUpdate(model_limits, wildcard_limits)

GetLimits(q, subkey, model) ==
    LET sub == DictGetOrEmpty(q, subkey)
        model_limits == DictGetOrEmpty(sub, model)
        wildcard_limits == DictGetOrEmpty(sub, Wildcard)
    IN  DictUpdate(wildcard_limits, model_limits)

----------------------------------------------------------------------------
(* QuotaManager: the usage table *)

Row(s, m, r, p, c, t) ==
    [subkey |-> s, model |-> m, requests |-> r, prompt_tokens |-> p,
     completion_tokens |-> c, total_tokens |-> t]

RowsFor(tbl, s, m) == {row \in tbl : row.subkey = s /\ row.model = m}

\* SELECT ... WHERE subkey=? AND model=?; fetchone(); (0,0,0,0) when no row.
GetUsage(tbl, s, m) ==
    IF RowsFor(tbl, s, m) = {}
    THEN <<0, 0, 0, 0>>
    ELSE LET row == CHOOSE row \in RowsFor(tbl, s, m) : TRUE
         IN  <<row.requests, row.prompt_tokens, row.completion_tokens, row.total_tokens>>

UpsertPerSubkey(tbl, s, m, r, p, c, t) ==
    LET mine == {row \in tbl : row.subkey = s}
    IN  (tbl \ mine)
        \cup {Row(s, old.model, old.requests + r, old.prompt_tokens + p,
                  old.completion_tokens + c, old.total_tokens + t) : old \in mine}
        \cup (IF RowsFor(tbl, s, m) = {} THEN {Row(s, m, r, p, c, t)} ELSE {})

\* INSERT ... ON CONFLICT(subkey, model) DO UPDATE SET col = col + excluded.col
UpsertOverwrite(tbl, s, m, r, p, c, t) ==
    (tbl \ RowsFor(tbl, s, m)) \cup {Row(s, m, r, p, c, t)}

Upsert(tbl, s, m, r, p, c, t) ==
    IF RowsFor(tbl, s, m) = {}
    THEN tbl \cup {Row(s, m, r, p, c, t)}
    ELSE (tbl \ RowsFor(tbl, s, m)) \cup
         {Row(s, m, old.requests + r, old.prompt_tokens + p,
              old.completion_tokens + c, old.total_tokens + t) : old \in RowsFor(tbl, s, m)}

RecordUsageStmtUnclamped(tbl, s, m, request_inc, prompt_tokens, completion_tokens, total_tokens) ==
    Upsert(tbl, s, m, request_inc, prompt_tokens, completion_tokens, total_tokens)

\* The statement record_usage executes: every delta clamped with max(0, .).
RecordUsageStmt(tbl, s, m, request_inc, prompt_tokens, completion_tokens, total_tokens) ==
    Upsert(tbl, s, m, Max0(request_inc), Max0(prompt_tokens),
           Max0(completion_tokens), Max0(total_tokens))

IsRequestAllowedInclusive(q, tbl, subkey, model) ==
    LET limits == GetLimits(q, subkey, model)
    IN  IF "requests" \notin DOMAIN limits THEN TRUE
        ELSE GetUsage(tbl, subkey, model)[1] <= limits["requests"]

IsRequestAllowed(q, tbl, subkey, model) ==
    LET limits == GetLimits(q, subkey, model)
    IN  IF "requests" \notin DOMAIN limits THEN TRUE
        ELSE GetUsage(tbl, subkey, model)[1] < limits["requests"]

WillExceedTokensUnclamped(q, tbl, subkey, model, next_total_tokens) ==
    LET limits == GetLimits(q, subkey, model)
    IN  IF "total_tokens" \notin DOMAIN limits THEN FALSE
        ELSE GetUsage(tbl, subkey, model)[4] + next_total_tokens > limits["total_tokens"]

WillExceedTokens(q, tbl, subkey, model, next_total_tokens) ==
    LET limits == GetLimits(q, subkey, model)
    IN  IF "total_tokens" \notin DOMAIN limits THEN FALSE
        ELSE GetUsage(tbl, subkey, model)[4] + Max0(next_total_tokens) > limits["total_tokens"]

----------------------------------------------------------------------------
(* Key lifecycle (key_lifecycle table, read by is_subkey_authorized) *)

NoKey == "-"
NoRow == [status |-> "none", revoke_reason |-> "-", replaced_by |-> NoKey, replaces |-> NoKey]

\* info['status'] of get_key_info: the row's status, 'active' when there is no row.
KeyStatus(lc, subkey) == IF lc[subkey].status = "none" THEN "active" ELSE lc[subkey].status

IsSubkeyAuthorizedPolicyOnly(q, lc, subkey) == subkey \in DOMAIN q

\* QuotaManager.is_subkey_authorized: in the policy and not revoked or replaced.
IsSubkeyAuthorized(q, lc, subkey) ==
    /\ subkey \in DOMAIN q
    /\ KeyStatus(lc, subkey) \notin {"revoked", "replaced"}

----------------------------------------------------------------------------
(* Values of the pipeline: requests, upstream responses, SSE lines *)

NumRequests == 2
MaxArrivals == 2
MaxAdmin == 1

Reqs == 1..NumRequests
NoSubkey == "none"
NoModel == "none"
TokenKeys == {"prompt_tokens", "completion_tokens", "total_tokens"}

\* quota_manager is set by lifespan before any request is served; the object is truthy.
quota_manager == TRUE

\* JSON values of a usage field: an integer, a non-numeric string, null.
JInt(n) == [tag |-> "int", val |-> n]
JStr == [tag |-> "str", val |-> 0]
JNull == [tag |-> "null", val |-> 0]

\* Python truthiness of a JSON value.
Truthy(v) == (v.tag = "int" /\ v.val # 0) \/ v.tag = "str"

\* int(v): the integer, or an exception (ok = FALSE).
IntOf(v) == IF v.tag = "int" THEN [ok |-> TRUE, val |-> v.val] ELSE [ok |-> FALSE, val |-> 0]

\* usage.get(k) or default
GetOr(u, k, default) == IF k \in DOMAIN u /\ Truthy(u[k]) THEN u[k] ELSE default

\* usage.get(k, default)
GetDefault(u, k, default) == IF k \in DOMAIN u THEN u[k] ELSE default

\* A JSON payload as far as usage extraction looks at it.
Payload(is_dict, has_usage, usage_is_dict, u) ==
    [is_dict |-> is_dict, has_usage |-> has_usage, usage_is_dict |-> usage_is_dict, usage |-> u]
NoPayload == Payload(FALSE, FALSE, FALSE, EmptyDict)
UsagePayload(u) == Payload(TRUE, TRUE, TRUE, u)
Usage3(p, c, t) == [prompt_tokens |-> JInt(p), completion_tokens |-> JInt(c), total_tokens |-> JInt(t)]

\* Content types, with the two substring tests the handler makes on them.
ContentTypes == {"application/json", "text/event-stream", "text/plain"}
ContainsJson(ct) == ct = "application/json"
IsStreamingResponse(ct) == ct = "text/event-stream"

\* Bodies of a buffered upstream response: content (empty or not), whether it parses as
\* JSON, and the parsed payload.
Body(has_content, parses, payload) == [has_content |-> has_content, parses |-> parses, payload |-> payload]
BodySamples ==
    { Body(TRUE, TRUE, UsagePayload(Usage3(2, 3, 5))),
      Body(TRUE, TRUE, UsagePayload([prompt_tokens |-> JInt(2), completion_tokens |-> JInt(3)])),
      Body(TRUE, TRUE, UsagePayload([prompt_tokens |-> JInt(2), completion_tokens |-> JStr])),
      Body(TRUE, TRUE, Payload(TRUE, FALSE, FALSE, EmptyDict)),
      Body(TRUE, FALSE, NoPayload),
      Body(FALSE, FALSE, NoPayload) }

UpstreamStatuses == {200, 429}
UpstreamResponses ==
    [status : {200}, ct : {"application/json"}, body : BodySamples]
    \cup [status : {429}, ct : {"application/json"},
          body : {Body(TRUE, TRUE, UsagePayload(Usage3(2, 3, 5))),
                  Body(TRUE, TRUE, Payload(TRUE, FALSE, FALSE, EmptyDict))}]
    \cup [status : {200}, ct : {"text/plain"},
          body : {Body(TRUE, TRUE, UsagePayload(Usage3(2, 3, 5)))}]
    \cup [status : UpstreamStatuses, ct : {"text/event-stream"},
          body : {Body(TRUE, FALSE, NoPayload)}]
\* Buffered answers whose usage object carries a total_tokens that differs from the
\* sum of the parts, is 0, or is null.
TotalsResponses ==
    [status : {200}, ct : {"application/json"},
     body : {Body(TRUE, TRUE, UsagePayload(Usage3(2, 3, 7))),
             Body(TRUE, TRUE, UsagePayload(Usage3(2, 3, 0))),
             Body(TRUE, TRUE, UsagePayload([prompt_tokens |-> JInt(2), completion_tokens |-> JInt(3),
                                            total_tokens |-> JNull]))}]
NoResponse == [status |-> 0, ct |-> "-", body |-> Body(FALSE, FALSE, NoPayload)]

\* Token extraction of the buffered path: the three assignments in order, an exception
\* leaving the later ones at their initial 0.
ExtractUsageAllOrNothing(ct, body) ==
    IF ~(ContainsJson(ct) /\ body.has_content) THEN <<0, 0, 0>>
    ELSE IF ~body.parses THEN <<0, 0, 0>>
    ELSE IF ~(body.payload.is_dict /\ body.payload.has_usage /\ body.payload.usage_is_dict)
    THEN <<0, 0, 0>>
    ELSE LET u == body.payload.usage
             p == IntOf(GetOr(u, "prompt_tokens", JInt(0)))
             c == IntOf(GetOr(u, "completion_tokens", JInt(0)))
             t == IntOf(GetOr(u, "total_tokens", JInt(p.val + c.val)))
         IN  IF p.ok /\ c.ok /\ t.ok THEN <<p.val, c.val, t.val>> ELSE <<0, 0, 0>>

ExtractUsageSumsTotal(ct, body) ==
    IF ~(ContainsJson(ct) /\ body.has_content) THEN <<0, 0, 0>>
    ELSE IF ~body.parses THEN <<0, 0, 0>>
    ELSE IF ~(body.payload.is_dict /\ body.payload.has_usage /\ body.payload.usage_is_dict)
    THEN <<0, 0, 0>>
    ELSE LET u == body.payload.usage
             p == IntOf(GetOr(u, "prompt_tokens", JInt(0)))
             c == IntOf(GetOr(u, "completion_tokens", JInt(0)))
         IN  IF ~p.ok THEN <<0, 0, 0>>
             ELSE IF ~c.ok THEN <<p.val, 0, 0>>
             ELSE <<p.val, c.val, p.val + c.val>>

\* The try block of the buffered path: the counts are assigned one by one, so a
\* failing int() keeps the ones assigned before it.
ExtractUsage(ct, body) ==
    IF ~(ContainsJson(ct) /\ body.has_content) THEN <<0, 0, 0>>
    ELSE IF ~body.parses THEN <<0, 0, 0>>
    ELSE IF ~(body.payload.is_dict /\ body.payload.has_usage /\ body.payload.usage_is_dict)
    THEN <<0, 0, 0>>
    ELSE LET u == body.payload.usage
             p == IntOf(GetOr(u, "prompt_tokens", JInt(0)))
             c == IntOf(GetOr(u, "completion_tokens", JInt(0)))
             t == IntOf(GetOr(u, "total_tokens", JInt(p.val + c.val)))
         IN  IF ~p.ok THEN <<0, 0, 0>>
             ELSE IF ~c.ok THEN <<p.val, 0, 0>>
             ELSE IF ~t.ok THEN <<p.val, c.val, 0>>
             ELSE <<p.val, c.val, t.val>>

\* SSE lines: a "data: " line holding [DONE], JSON or something that is not JSON, or
\* any other line (blank separator, comment).
Line(is_data, content, payload) == [is_data |-> is_data, content |-> content, payload |-> payload]
ChoiceLine == Line(TRUE, "json", Payload(TRUE, FALSE, FALSE, EmptyDict))
UsageLine(p, c, t) == Line(TRUE, "json", UsagePayload(Usage3(p, c, t)))
BadUsageLine == Line(TRUE, "json", UsagePayload([prompt_tokens |-> JStr]))
MalformedLine == Line(TRUE, "malformed", NoPayload)
DoneLine == Line(TRUE, "done", NoPayload)
BlankLine == Line(FALSE, "blank", NoPayload)
CommentLine == Line(FALSE, "comment", NoPayload)

ErrorLine == Line(FALSE, "error", NoPayload)

StreamSamples ==
    { <<ChoiceLine, UsageLine(2, 3, 5), DoneLine>>,
      <<ChoiceLine, BlankLine, DoneLine>>,
      <<UsageLine(1, 1, 2), UsageLine(2, 3, 5), BadUsageLine>>,
      <<MalformedLine, BadUsageLine, CommentLine>>,
      <<>> }

\* What the re-opened stream can be: an event-stream of one of the samples, or an
\* error answer whose body is not an event-stream.
StreamResponses ==
    [status : {200}, lines : StreamSamples] \cup {[status |-> 429, lines |-> <<ErrorLine>>]}

\* The number of lines in the body of the first answer, which client.post reads whole.
FirstBodyLines == {Len(lines) : lines \in StreamSamples}

\* The streams the concurrent pipeline is run with: one with usage, one without.
ConcurrentStreamResponses ==
    { [status |-> 200, lines |-> <<ChoiceLine, UsageLine(2, 3, 5), DoneLine>>],
      [status |-> 200, lines |-> <<>>] }

\* chunk_bytes = (line + "\n").encode('utf-8'); b"" is the empty chunk.
ChunkBytes(line) == <<line, "\n">>
EmptyChunk == <<>>

\* usage_data / collected_usage: None, or the dict of the three counts.
NoUsage == [set |-> FALSE, prompt_tokens |-> 0, completion_tokens |-> 0, total_tokens |-> 0]
UsageDict(p, c, t) == [set |-> TRUE, prompt_tokens |-> p, completion_tokens |-> c, total_tokens |-> t]

\* One iteration of parse_sse_stream: the value of usage_data after the line.
ParseLineKeepFirst(line, usage_data) ==
    IF ~line.is_data \/ line.content # "json" THEN usage_data
    ELSE IF ~(line.payload.is_dict /\ line.payload.has_usage /\ line.payload.usage_is_dict)
    THEN usage_data
    ELSE LET u == line.payload.usage
             p == IntOf(GetDefault(u, "prompt_tokens", JInt(0)))
             c == IntOf(GetDefault(u, "completion_tokens", JInt(0)))
             t == IntOf(GetDefault(u, "total_tokens", JInt(0)))
         IN  IF p.ok /\ c.ok /\ t.ok /\ ~usage_data.set
             THEN UsageDict(p.val, c.val, t.val) ELSE usage_data

ParseLine(line, usage_data) ==
    IF ~line.is_data \/ line.content # "json" THEN usage_data
    ELSE IF ~(line.payload.is_dict /\ line.payload.has_usage /\ line.payload.usage_is_dict)
    THEN usage_data
    ELSE LET u == line.payload.usage
             p == IntOf(GetDefault(u, "prompt_tokens", JInt(0)))
             c == IntOf(GetDefault(u, "completion_tokens", JInt(0)))
             t == IntOf(GetDefault(u, "total_tokens", JInt(0)))
         IN  IF p.ok /\ c.ok /\ t.ok THEN UsageDict(p.val, c.val, t.val) ELSE usage_data

\* The usage half of the tuple parse_sse_stream yields with the line.
YieldedUsage(line, usage_data) ==
    IF line.is_data /\ line.content = "done" THEN usage_data ELSE NoUsage

\* The tuple parse_sse_stream yields for a line: the chunk and the usage half.
YieldsDataOnly(line, usage_data) ==
    [chunk_bytes |-> IF line.is_data THEN ChunkBytes(line) ELSE EmptyChunk,
     usage |-> YieldedUsage(line, usage_data)]

Yields(line, usage_data) ==
    [chunk_bytes |-> ChunkBytes(line), usage |-> YieldedUsage(line, usage_data)]

\* The tuple yielded after the loop, when usage was extracted: (b"", usage_data).
FinalYield(usage_data) == [chunk_bytes |-> EmptyChunk, usage |-> usage_data]

----------------------------------------------------------------------------
(* oauth.py: TokenCache and get_access_token *)

NumTokenCallers == 2
MaxTokenCalls == 2
MaxTicks == 1

TokenCallers == 1..NumTokenCallers

\* TokenCache(): access_token None, expires_at 0.0
NoToken == "none"
EmptyCache == [access_token |-> NoToken, expires_at |-> 0]

\* The clock starts at StartTime and advances by one of ClockSteps.
StartTime == 1000
ClockSteps == {60, 3600}

\* The client id and secret of the configuration; each may be empty.
Configured == [client_id |-> "x", client_secret |-> "y"]
CredSamples == [client_id : {"", "x"}, client_secret : {"", "y"}]

\* if cache.access_token and now < cache.expires_at - 60:
CacheValidInclusive(cache, t) == cache.access_token # NoToken /\ t <= cache.expires_at - 60

CacheValid(cache, t) == cache.access_token # NoToken /\ t < cache.expires_at - 60

\* The list of missing variables, in the order the checks append them.
MissingFirstOnly(c) ==
    IF c.client_id = "" THEN <<"CIRCUIT_CLIENT_ID">>
    ELSE IF c.client_secret = "" THEN <<"CIRCUIT_CLIENT_SECRET">>
    ELSE <<>>

Missing(c) ==
    (IF c.client_id = "" THEN <<"CIRCUIT_CLIENT_ID">> ELSE <<>>)
      \o (IF c.client_secret = "" THEN <<"CIRCUIT_CLIENT_SECRET">> ELSE <<>>)

\* What get_access_token gives its caller: the token, an HTTPException with a
\* status and the missing variables named in its detail, or another exception.
TokenResult(token) == [kind |-> "token", token |-> token, status |-> 0, missing |-> <<>>]
RaisedHTTP(status, missing) == [kind |-> "HTTPException", token |-> NoToken, status |-> status, missing |-> missing]
RaisedOther == [kind |-> "exception", token |-> NoToken, status |-> 0, missing |-> <<>>]
NoResult == [kind |-> "none", token |-> NoToken, status |-> 0, missing |-> <<>>]

\* Answers of the token endpoint: status, whether the body is JSON, and its fields.
TokenAnswer(status, json, body) == [status |-> status, json |-> json, body |-> body]
NoTokenAnswer == TokenAnswer(0, FALSE, EmptyDict)
TokenAnswers ==
    { TokenAnswer(200, TRUE, [access_token |-> "tok1", expires_in |-> JInt(120)]),
      TokenAnswer(200, TRUE, [access_token |-> "tok2"]),
      TokenAnswer(200, TRUE, [access_token |-> "tok2", expires_in |-> JStr]),
      TokenAnswer(200, TRUE, [error |-> "pending"]),
      TokenAnswer(200, FALSE, EmptyDict),
      TokenAnswer(401, TRUE, [error |-> "invalid_client"]),
      TokenAnswer(503, FALSE, EmptyDict) }

\* get_access_token after the POST returned: the status test, r.json(), the two
\* assignments to the cache in order, and the return of cache.access_token.
TokenResponseClearsOnFailure(cache, t, ans) ==
    IF ans.status # 200 THEN [cache |-> EmptyCache, result |-> RaisedHTTP(502, <<>>)]
    ELSE IF ~ans.json THEN [cache |-> cache, result |-> RaisedOther]
    ELSE IF "access_token" \notin DOMAIN ans.body THEN [cache |-> cache, result |-> RaisedOther]
    ELSE LET access_token == ans.body["access_token"]
             expires_in == IntOf(GetDefault(ans.body, "expires_in", JInt(3600)))
         IN  IF ~expires_in.ok
             THEN [cache |-> [cache EXCEPT !.access_token = access_token], result |-> RaisedOther]
             ELSE [cache |-> [access_token |-> access_token, expires_at |-> t + expires_in.val],
                   result |-> TokenResult(access_token)]

TokenResponse(cache, t, ans) ==
    IF ans.status # 200 THEN [cache |-> cache, result |-> RaisedHTTP(502, <<>>)]
    ELSE IF ~ans.json THEN [cache |-> cache, result |-> RaisedOther]
    ELSE IF "access_token" \notin DOMAIN ans.body THEN [cache |-> cache, result |-> RaisedOther]
    ELSE LET access_token == ans.body["access_token"]
             expires_in == IntOf(GetDefault(ans.body, "expires_in", JInt(3600)))
         IN  IF ~expires_in.ok
             THEN [cache |-> [cache EXCEPT !.access_token = access_token], result |-> RaisedOther]
             ELSE [cache |-> [access_token |-> access_token, expires_at |-> t + expires_in.val],
                   result |-> TokenResult(access_token)]

\* A caller of get_access_token: where it is, the time it read on entry, the cache
\* as it found it on entry (seen), just before the endpoint's answer was handled
\* (pre) and as it left it (left), the requests it sent, the answer and its result.
IdleTokenCaller ==
    [pc |-> "idle", now |-> 0, seen |-> EmptyCache, pre |-> EmptyCache, left |-> EmptyCache,
     posts |-> 0, answer |-> NoTokenAnswer, result |-> NoResult]

\* A request chat_completion has not started on.
----------------------------------------------------------------------------
(* SplunkHEC: the telemetry exporter and the events it builds *)

\* SplunkHEC(hec_url=config.splunk_hec_url, hec_token=config.splunk_hec_token,
\* hash_subkeys=True): "" is what an unset environment variable gives.
HecConfig(hec_url, hec_token) == [hec_url |-> hec_url, hec_token |-> hec_token, hash_subkeys |-> TRUE]
HecDisabled == HecConfig("", "")
HecConfigs == {HecConfig(u, t) : u \in {"", "https://hec"}, t \in {"", "tok"}}

\* self.enabled = bool(hec_url and hec_token)
HecEnabled(h) == h.hec_url # "" /\ h.hec_token # ""

\* hashlib.sha256(subkey).hexdigest()[:16]: the two subkeys are a pair whose digests
\* agree on the sixteen digits that are kept.
Sha256Hex16(subkey) == IF subkey \in Subkeys THEN "9f86d081884c7d65" ELSE "e3b0c44298fc1c14"

HashSubkeyPlain(h, subkey) == subkey

\* _hash_subkey
HashSubkey(h, subkey) == IF ~h.hash_subkeys THEN subkey ELSE "sha256:" \o Sha256Hex16(subkey)

\* get_friendly_name: the friendly_name column of the subkey's row, None without a row.
GetFriendlyName(nm, subkey) == IF subkey \in nm THEN "name of " \o subkey ELSE "None"

\* get_name_and_email: the friendly_name and email columns of the subkey's row.
GetNameAndEmail(nm, subkey) ==
    IF subkey \in nm THEN <<"name of " \o subkey, "email of " \o subkey>> ELSE <<"None", "None">>

\* event_data of send_usage_event with the additional_fields chat_completion passes;
\* friendly_name and email are left out of the event when they are None.
UsageEvent(h, subkey, model, tokens, name_email, status_code, is_streaming, t) ==
    [sourcetype |-> "llm:usage", event_type |-> "usage", error_type |-> "-",
     error_message |-> "-",
     subkey |-> HashSubkey(h, subkey), model |-> model, requests |-> 1,
     prompt_tokens |-> tokens[1], completion_tokens |-> tokens[2], total_tokens |-> tokens[3],
     timestamp |-> t,
     friendly_name |-> IF name_email[1] = "None" THEN "-" ELSE name_email[1],
     email |-> IF name_email[2] = "None" THEN "-" ELSE name_email[2],
     status_code |-> status_code, success |-> status_code < 400, is_streaming |-> is_streaming,
     client_ip |-> "client", x_forwarded_for |-> ""]

\* event_data of send_error_event as the two gates call it.
ErrorEvent(h, error_type, subkey, model, friendly_name, t) ==
    [sourcetype |-> "llm:usage:error", event_type |-> "error", error_type |-> error_type,
     error_message |-> IF error_type = "quota_exceeded"
                       THEN "Request quota exceeded for model " \o model
                       ELSE "Subkey not found in authorized list",
     subkey |-> HashSubkey(h, subkey), model |-> model, requests |-> 0,
     prompt_tokens |-> 0, completion_tokens |-> 0, total_tokens |-> 0,
     timestamp |-> t,
     friendly_name |-> IF friendly_name = "None" THEN "-" ELSE friendly_name,
     email |-> "-",
     status_code |-> 0, success |-> FALSE, is_streaming |-> FALSE,
     client_ip |-> "client", x_forwarded_for |-> ""]

\* What client.post to the HEC endpoint does: an answer with a status, or an exception.
SinkStatuses == {"200", "400", "503"}
SinkExceptions == {"TimeoutException", "ConnectError", "HTTPError", "Exception"}
SinkAnswers == SinkStatuses \cup SinkExceptions
NoCall == "no call"
AnswersFor(h) == IF HecEnabled(h) THEN SinkAnswers ELSE {NoCall}

\* What a send_*_event call comes to: its return value, whether an exception left it,
\* and the number of POSTs it made.
Sent(returned, raised, posts) == [returned |-> returned, raised |-> raised, posts |-> posts]
NoTelemetry == [kind |-> "none", answer |-> "-", returned |-> FALSE, raised |-> FALSE, posts |-> 0]

SendEventCatchesHttpxOnly(h, answer) ==
    IF ~HecEnabled(h) THEN Sent(FALSE, FALSE, 0)
    ELSE IF answer \in SinkStatuses THEN Sent(answer = "200", FALSE, 1)
    ELSE IF answer \in {"TimeoutException", "ConnectError", "HTTPError"} THEN Sent(FALSE, FALSE, 1)
    ELSE Sent(FALSE, TRUE, 1)

\* send_usage_event / send_error_event around the POST: False when disabled; True on
\* 200, False on another status; the except clauses end in except Exception.
SendEvent(h, answer) ==
    IF ~HecEnabled(h) THEN Sent(FALSE, FALSE, 0)
    ELSE IF answer \in SinkStatuses THEN Sent(answer = "200", FALSE, 1)
    ELSE IF answer \in SinkExceptions THEN Sent(FALSE, FALSE, 1)
    ELSE Sent(FALSE, TRUE, 1)

\* The telemetry fields of a request after a send_*_event call.
Telemetry(kind, answer, sent) ==
    [kind |-> kind, answer |-> answer, returned |-> sent.returned, raised |-> sent.raised,
     posts |-> sent.posts]

\* The sink after the call: the event is there when a POST was made.
Posted(sink, sent, event, caller) ==
    IF sent.posts = 0 THEN sink ELSE sink \cup {[event |-> event, caller |-> caller]}

IdleReq ==
    [pc |-> "idle", body |-> "-", model |-> NoModel, subkey |-> NoSubkey,
     status |-> 0, origin |-> "-",
     lc_at_gate |-> "-", used_at_gate |-> -1,
     token_calls |-> 0, token |-> NoResult, posts |-> 0, records |-> 0, rec_args |-> <<0, 0, 0, 0>>,
     up |-> NoResponse, stream |-> <<>>, stream_status |-> 0, upstream_open |-> FALSE,
     lines |-> <<>>, usage_data |-> NoUsage, collected_usage |-> NoUsage,
     chunk |-> EmptyChunk, forwarded |-> <<>>, consumed |-> 0, handed |-> 0,
     presented |-> FALSE, path |-> "-", telemetry |-> NoTelemetry]

\* time.time() moves on.
Tick(d) ==
    /\ ticks < MaxTicks
    /\ ticks' = ticks + 1
    /\ now' = now + d
    /\ UNCHANGED <<storeVars, threadVars, pipeVars, hecVars, resolved, token_cache, tk, tcalls, creds>>

\* get_access_token up to its first await: the cached token is returned, or the
\* missing credentials are reported, or the request to the token endpoint is sent.
GetAccessTokenCall(c) ==
    /\ tk[c].pc \in {"idle", "returned"}
    /\ tcalls < MaxTokenCalls
    /\ tcalls' = tcalls + 1
    /\ LET entered == [IdleTokenCaller EXCEPT !.now = now, !.seen = token_cache,
                                              !.pre = token_cache, !.left = token_cache]
       IN  tk' = [tk EXCEPT ![c] =
                    IF CacheValid(token_cache, now)
                    THEN [entered EXCEPT !.pc = "returned",
                                         !.result = TokenResult(token_cache.access_token)]
                    ELSE IF Missing(creds) # <<>>
                    THEN [entered EXCEPT !.pc = "returned",
                                         !.result = RaisedHTTP(500, Missing(creds))]
                    ELSE [entered EXCEPT !.pc = "post", !.posts = 1]]
    /\ UNCHANGED <<storeVars, threadVars, pipeVars, hecVars, resolved, token_cache, now, ticks, creds>>

\* The token endpoint answers the POST.
TokenEndpointAnswers(c, ans) ==
    /\ tk[c].pc = "post"
    /\ LET out == TokenResponse(token_cache, tk[c].now, ans)
       IN  /\ token_cache' = out.cache
           /\ tk' = [tk EXCEPT ![c].pc = "returned", ![c].pre = token_cache,
                               ![c].left = out.cache, ![c].answer = ans,
                               ![c].result = out.result]
    /\ UNCHANGED <<storeVars, threadVars, pipeVars, hecVars, resolved, now, ticks, tcalls, creds>>

\* The POST raises (connection refused, timeout): the exception is logged and re-raised.
TokenEndpointFails(c) ==
    /\ tk[c].pc = "post"
    /\ tk' = [tk EXCEPT ![c].pc = "returned", ![c].pre = token_cache,
                        ![c].left = token_cache, ![c].result = RaisedOther]
    /\ UNCHANGED <<storeVars, threadVars, pipeVars, hecVars, resolved, token_cache, now, ticks, tcalls, creds>>

----------------------------------------------------------------------------
(* Quota policies *)

\* Every limit dict over the two limit keys with values up to MaxLimit.
LimitDicts == UNION {[D -> 0..MaxLimit] : D \in SUBSET LimitKeys}

\* Every policy of one subkey with an optional entry for one model and for "*".
ModelEntries(m) == {EmptyDict} \cup {m :> d : d \in LimitDicts}
SubkeyPolicies == {a @@ b : a \in ModelEntries("gpt-4o"), b \in ModelEntries(Wildcard)}
AllPolicies == {EmptyDict} \cup {"alice" :> sp : sp \in SubkeyPolicies}

\* A few policies in the shape of the ones the tests load.
QuotaSamples ==
    { EmptyDict,
      "alice" :> (("gpt-4o" :> [requests |-> 2, total_tokens |-> 5]) @@ (Wildcard :> [requests |-> 3])),
      ("alice" :> (("gpt-4o" :> [requests |-> 0]) @@ (Wildcard :> [requests |-> 1])))
         @@ ("bob" :> ("gpt-4o-mini" :> [requests |-> 1])),
      "alice" :> (("gpt-4o" :> [total_tokens |-> 3]) @@ (Wildcard :> [requests |-> 1])) }

\* Arguments record_usage is called with: (request_inc, prompt, completion, total).
ArgSamples == {<<1, 2, 3, 5>>, <<2, 0, 0, 3>>, <<-1, 2, -3, -1>>}

IdleThread == [pc |-> "idle", subkey |-> "-", model |-> "-", args |-> <<0, 0, 0, 0>>, conn |-> {}]
NoAnswer == [op |-> "none"]

InFlight(t) == th[t].pc # "idle"
InFlightOn(t, s, m) == InFlight(t) /\ th[t].subkey = s /\ th[t].model = m

----------------------------------------------------------------------------
(* QuotaManager.record_usage, step by step, called from several threads *)

\* A caller enters record_usage(subkey, model, request_inc, ...).
RecordUsageCall(t, s, m, a) ==
    /\ th[t].pc = "idle"
    /\ calls < MaxCalls
    /\ th' = [th EXCEPT ![t] = [pc |-> "lock", subkey |-> s, model |-> m, args |-> a, conn |-> {}]]
    /\ calls' = calls + 1
    /\ applied' = [applied EXCEPT ![<<s, m>>] = @ + Max0(a[1])]
    /\ started' = started \cup {<<s, m>>}
    /\ overlap' = IF \E u \in Threads \ {t} : InFlightOn(u, s, m)
                  THEN overlap \cup {<<s, m>>} ELSE overlap
    /\ UNCHANGED <<storeVars, pipeVars, hecVars, lock, resolved, tokenVars>>

\* with self._lock:
RecordUsageAcquire(t) ==
    /\ th[t].pc = "lock"
    /\ lock = NoThread
    /\ lock' = t
    /\ th' = [th EXCEPT ![t].pc = "execute"]
    /\ UNCHANGED <<storeVars, pipeVars, hecVars, calls, applied, started, overlap, resolved, tokenVars>>

\* conn.execute(INSERT ... ON CONFLICT DO UPDATE ...) inside the connection's transaction
RecordUsageExecute(t) ==
    /\ th[t].pc = "execute"
    /\ th' = [th EXCEPT ![t].pc = "commit",
                        ![t].conn = RecordUsageStmt(usage, th[t].subkey, th[t].model,
                                        th[t].args[1], th[t].args[2], th[t].args[3], th[t].args[4])]
    /\ UNCHANGED <<storeVars, pipeVars, hecVars, lock, calls, applied, started, overlap, resolved, tokenVars>>

\* conn.commit(); the connection closes and the lock is released on leaving the with blocks
RecordUsageCommit(t) ==
    /\ th[t].pc = "commit"
    /\ usage' = th[t].conn
    /\ lock' = NoThread
    /\ th' = [th EXCEPT ![t] = IdleThread]
    /\ UNCHANGED <<quotas, lifecycle, names, quotas_file, pipeVars, hecVars, calls, applied, started, overlap, resolved, tokenVars>>

InitQuota ==
    /\ quotas \in QuotaSamples
    /\ usage = {}
    /\ lifecycle = [s \in Subkeys |-> NoRow]
    /\ lock = NoThread
    /\ th = [t \in Threads |-> IdleThread]
    /\ calls = 0
    /\ applied = [p \in Pairs |-> 0]
    /\ started = {}
    /\ overlap = {}
    /\ resolved = NoAnswer
    /\ names = {}
    /\ quotas_file = quotas
    /\ require_subkey = FALSE
    /\ splunk_hec = HecDisabled
    /\ hec_sink = {}
    /\ dispatched = [p \in Pairs |-> 0]
    /\ req = [r \in Reqs |-> IdleReq]
    /\ arrivals = 0
    /\ admin = 0
    /\ token_cache = EmptyCache
    /\ now = StartTime
    /\ ticks = 0
    /\ tk = [c \in TokenCallers |-> IdleTokenCaller]
    /\ tcalls = 0
    /\ creds = Configured

NextQuota ==
    \/ \E t \in Threads, s \in Subkeys, m \in Models, a \in ArgSamples : RecordUsageCall(t, s, m, a)
    \/ \E t \in Threads : RecordUsageAcquire(t)
    \/ \E t \in Threads : RecordUsageExecute(t)
    \/ \E t \in Threads : RecordUsageCommit(t)

SpecQuota == InitQuota /\ [][NextQuota]_vars

Quiescent == \A t \in Threads : th[t].pc = "idle"

RECURSIVE SumOver(_, _)
SumOver(S, f) == IF S = {} THEN 0
                 ELSE LET x == CHOOSE x \in S : TRUE IN f[x] + SumOver(S \ {x}, f)

\* Request increments of the calls on (s, m) that are started and not yet committed.
PendingRequests(s, m) ==
    SumOver({t \in Threads : InFlightOn(t, s, m)}, [t \in Threads |-> Max0(th[t].args[1])])

HasRequestsLimit(s, m) == "requests" \in DOMAIN GetLimits(quotas, s, m)
RequestsLimit(s, m) == GetLimits(quotas, s, m)["requests"]

----------------------------------------------------------------------------
(* Claims on the quota store *)

\* C3: once every record_usage call has returned, is_request_allowed(subkey, model)
\* is true iff the request increments applied for the pair sum to less than the
\* effective requests limit N, and always true when no requests limit is configured.
C3_AllowedIffBelowLimit ==
    Quiescent =>
        \A s \in Subkeys, m \in Models :
            IsRequestAllowed(quotas, usage, s, m) =
                (IF HasRequestsLimit(s, m) THEN applied[<<s, m>>] < RequestsLimit(s, m) ELSE TRUE)

\* C3 witness: a pair with limit 2 has had exactly 2 requests recorded and is now denied.
C3_Witness ==
    /\ Quiescent
    /\ HasRequestsLimit("alice", "gpt-4o")
    /\ RequestsLimit("alice", "gpt-4o") = 2
    /\ applied[<<"alice", "gpt-4o">>] = 2
    /\ ~IsRequestAllowed(quotas, usage, "alice", "gpt-4o")

\* C4: under every interleaving of record_usage calls the table never holds two rows
\* for one (subkey, model); the committed requests counter plus the increments of the
\* calls still in flight equals the sum of all increments asked for (no lost update);
\* and once all calls have returned every pair that was recorded has exactly one row.
C4_NoLostUpdate ==
    \A s \in Subkeys, m \in Models :
        /\ Cardinality(RowsFor(usage, s, m)) <= 1
        /\ GetUsage(usage, s, m)[1] + PendingRequests(s, m) = applied[<<s, m>>]
        /\ (Quiescent /\ <<s, m>> \in started) => Cardinality(RowsFor(usage, s, m)) = 1

\* C4 witness: two calls on the same pair were in flight together, both have
\* returned, and the single row holds both increments.
C4_Witness ==
    /\ Quiescent
    /\ \E p \in overlap :
          /\ applied[p] >= 2
          /\ Cardinality(RowsFor(usage, p[1], p[2])) = 1
          /\ GetUsage(usage, p[1], p[2])[1] = applied[p]

----------------------------------------------------------------------------
(* Limit resolution on its own: every policy, every query *)

GetLimitsCall(s, m) ==
    /\ resolved' = [op |-> "get_limits", subkey |-> s, model |-> m,
                    limits |-> GetLimits(quotas, s, m)]
    /\ UNCHANGED <<storeVars, threadVars, pipeVars, hecVars, tokenVars>>

IsRequestAllowedCall(s, m) ==
    /\ resolved' = [op |-> "is_request_allowed", subkey |-> s, model |-> m,
                    result |-> IsRequestAllowed(quotas, usage, s, m)]
    /\ UNCHANGED <<storeVars, threadVars, pipeVars, hecVars, tokenVars>>

InitLimits ==
    /\ quotas \in AllPolicies
    /\ usage = {}
    /\ lifecycle = [s \in Subkeys |-> NoRow]
    /\ lock = NoThread
    /\ th = [t \in Threads |-> IdleThread]
    /\ calls = 0
    /\ applied = [p \in Pairs |-> 0]
    /\ started = {}
    /\ overlap = {}
    /\ resolved = NoAnswer
    /\ names = {}
    /\ quotas_file = quotas
    /\ require_subkey = FALSE
    /\ splunk_hec = HecDisabled
    /\ hec_sink = {}
    /\ dispatched = [p \in Pairs |-> 0]
    /\ req = [r \in Reqs |-> IdleReq]
    /\ arrivals = 0
    /\ admin = 0
    /\ token_cache = EmptyCache
    /\ now = StartTime
    /\ ticks = 0
    /\ tk = [c \in TokenCallers |-> IdleTokenCaller]
    /\ tcalls = 0
    /\ creds = Configured

NextLimits ==
    \/ \E s \in Subkeys, m \in Models : GetLimitsCall(s, m)
    \/ \E s \in Subkeys, m \in Models : IsRequestAllowedCall(s, m)

SpecLimits == InitLimits /\ [][NextLimits]_vars

\* The policy entry of (subkey, model-or-"*") defines limit key k.
Defines(s, m, k) ==
    /\ s \in DOMAIN quotas
    /\ m \in DOMAIN quotas[s]
    /\ k \in DOMAIN quotas[s][m]

\* C9: _get_limits resolves key by key: the model entry's value when the model entry
\* defines the key, else the "*" entry's value, else the key is absent (unlimited);
\* so a model-specific requests: 0 denies the model whatever "*" says, and a model
\* without an entry of its own is governed by "*" alone.
C9_KeyByKeyOverride ==
    /\ resolved.op = "get_limits" =>
          \A k \in LimitKeys :
              LET s == resolved.subkey
                  m == resolved.model
              IN  IF Defines(s, m, k)
                  THEN k \in DOMAIN resolved.limits /\ resolved.limits[k] = quotas[s][m][k]
                  ELSE IF Defines(s, Wildcard, k)
                  THEN k \in DOMAIN resolved.limits /\ resolved.limits[k] = quotas[s][Wildcard][k]
                  ELSE k \notin DOMAIN resolved.limits
    /\ resolved.op = "is_request_allowed" =>
          LET s == resolved.subkey
              m == resolved.model
          IN  /\ (Defines(s, m, "requests") /\ quotas[s][m]["requests"] = 0) => ~resolved.result
              /\ ~(s \in DOMAIN quotas /\ m \in DOMAIN quotas[s]) =>
                     resolved.result =
                        (Defines(s, Wildcard, "requests") => 0 < quotas[s][Wildcard]["requests"])

\* C9 witness: the model entry says requests: 0 and only that, "*" allows requests and
\* limits tokens; the model is denied and inherits the token limit.
C9_Witness ==
    /\ resolved.op = "get_limits"
    /\ Defines(resolved.subkey, resolved.model, "requests")
    /\ ~Defines(resolved.subkey, resolved.model, "total_tokens")
    /\ quotas[resolved.subkey][resolved.model]["requests"] = 0
    /\ Defines(resolved.subkey, Wildcard, "requests")
    /\ quotas[resolved.subkey][Wildcard]["requests"] > 0
    /\ Defines(resolved.subkey, Wildcard, "total_tokens")
    /\ resolved.limits["requests"] = 0
    /\ resolved.limits["total_tokens"] = quotas[resolved.subkey][Wildcard]["total_tokens"]
    /\ ~IsRequestAllowed(quotas, usage, resolved.subkey, resolved.model)

----------------------------------------------------------------------------
(* get_access_token on its own: concurrent callers, a moving clock *)

InitToken ==
    /\ quotas = EmptyDict
    /\ usage = {}
    /\ lifecycle = [s \in Subkeys |-> NoRow]
    /\ lock = NoThread
    /\ th = [t \in Threads |-> IdleThread]
    /\ calls = 0
    /\ applied = [p \in Pairs |-> 0]
    /\ started = {}
    /\ overlap = {}
    /\ resolved = NoAnswer
    /\ names = {}
    /\ quotas_file = quotas
    /\ require_subkey = FALSE
    /\ splunk_hec = HecDisabled
    /\ hec_sink = {}
    /\ dispatched = [p \in Pairs |-> 0]
    /\ req = [r \in Reqs |-> IdleReq]
    /\ arrivals = 0
    /\ admin = 0
    /\ token_cache = EmptyCache
    /\ now = StartTime
    /\ ticks = 0
    /\ tk = [c \in TokenCallers |-> IdleTokenCaller]
    /\ tcalls = 0
    /\ creds \in CredSamples

NextToken ==
    \/ \E d \in ClockSteps : Tick(d)
    \/ \E c \in TokenCallers : GetAccessTokenCall(c)
    \/ \E c \in TokenCallers, ans \in TokenAnswers : TokenEndpointAnswers(c, ans)
    \/ \E c \in TokenCallers : TokenEndpointFails(c)

SpecToken == InitToken /\ [][NextToken]_vars

\* On entry the caller found a token in the cache and read a time before expires_at - 60.
CachedAndFresh(c) ==
    tk[c].seen.access_token # NoToken /\ tk[c].now < tk[c].seen.expires_at - 60

CredentialsPresent == creds.client_id # "" /\ creds.client_secret # ""

\* C16: with credentials configured, a call sends a request to the token endpoint iff
\* the cache held no token or the time read was >= expires_at - 60; a call that found
\* a cached token with now < expires_at - 60 returned exactly that token, sent nothing
\* and left both cache fields as it found them.
C16_RefreshIffAbsentOrNearExpiry ==
    \A c \in TokenCallers :
        (tk[c].pc # "idle" /\ CredentialsPresent) =>
            /\ (tk[c].posts = 1) = ~CachedAndFresh(c)
            /\ CachedAndFresh(c) =>
                  /\ tk[c].pc = "returned"
                  /\ tk[c].result = TokenResult(tk[c].seen.access_token)
                  /\ tk[c].posts = 0
                  /\ tk[c].left = tk[c].seen

\* C16 witness: a call made after the clock moved is served from the cache.
C16_Witness ==
    \E c \in TokenCallers :
        /\ tk[c].pc = "returned"
        /\ CachedAndFresh(c)
        /\ tk[c].now > StartTime
        /\ tk[c].result.kind = "token"
        /\ tk[c].posts = 0

\* The answer is a grant: status 200, a JSON body with access_token and an expires_in
\* that is a number or absent.
IsGrant(ans) ==
    /\ ans.status = 200
    /\ ans.json
    /\ "access_token" \in DOMAIN ans.body
    /\ ("expires_in" \in DOMAIN ans.body => ans.body["expires_in"].tag = "int")

GrantLifetime(ans) ==
    IF "expires_in" \in DOMAIN ans.body THEN ans.body["expires_in"].val ELSE 3600

\* C17: a refresh answered with a status other than 200 fails with an error and leaves
\* the cache (token and expires_at) exactly as it was when the answer came in; a grant
\* overwrites the cache with the new token and expires_at = now + expires_in, 3600
\* when expires_in is absent, now being the time the call read on entry.
C17_RefreshOutcome ==
    \A c \in TokenCallers :
        (tk[c].pc = "returned" /\ tk[c].answer # NoTokenAnswer) =>
            /\ tk[c].answer.status # 200 =>
                  /\ tk[c].result.kind \in {"HTTPException", "exception"}
                  /\ tk[c].left = tk[c].pre
            /\ IsGrant(tk[c].answer) =>
                  /\ tk[c].result = TokenResult(tk[c].answer.body["access_token"])
                  /\ tk[c].left = [access_token |-> tk[c].answer.body["access_token"],
                                   expires_at |-> tk[c].now + GrantLifetime(tk[c].answer)]

\* C17 witness: a grant without expires_in was cached with expires_at = now + 3600;
\* once it expired a refresh was refused, and the old token and expiry are still cached.
C17_Witness ==
    \E c \in TokenCallers :
        /\ tk[c].pc = "returned"
        /\ tk[c].answer.status = 401
        /\ tk[c].pre = [access_token |-> "tok2", expires_at |-> StartTime + 3600]
        /\ tk[c].left = tk[c].pre
        /\ token_cache = tk[c].pre

\* C20: with the client id or the client secret empty and no valid token in the cache,
\* the call fails with status 500, its detail naming exactly the missing variables,
\* sends nothing to the token endpoint and leaves the cache as it found it.
C20_MissingCredentialsFailFast ==
    \A c \in TokenCallers :
        (tk[c].pc # "idle" /\ ~CredentialsPresent /\ ~CachedAndFresh(c)) =>
            /\ tk[c].pc = "returned"
            /\ tk[c].result.kind = "HTTPException"
            /\ tk[c].result.status = 500
            /\ \A v \in {"CIRCUIT_CLIENT_ID", "CIRCUIT_CLIENT_SECRET"} :
                  (\E i \in DOMAIN tk[c].result.missing : tk[c].result.missing[i] = v)
                    = (IF v = "CIRCUIT_CLIENT_ID" THEN creds.client_id = ""
                       ELSE creds.client_secret = "")
            /\ tk[c].posts = 0
            /\ tk[c].left = tk[c].seen

\* C20 witness: both credentials are empty and the failure names both.
C20_Witness ==
    \E c \in TokenCallers :
        /\ creds.client_id = "" /\ creds.client_secret = ""
        /\ tk[c].pc = "returned"
        /\ tk[c].result.status = 500
        /\ Len(tk[c].result.missing) = 2
        /\ tk[c].posts = 0
        /\ token_cache = EmptyCache

----------------------------------------------------------------------------
(* chat_completion: the request pipeline *)

PipelinePolicies ==
    { "alice" :> (("gpt-4o" :> [requests |-> 1, total_tokens |-> 5]) @@ (Wildcard :> [requests |-> 2])) }

\* The gates in the handler's order; 0 when every gate is passed. A body that is JSON
\* but not an object makes req_data.pop("model", None) raise, which is answered 500.
GateStatusQuotaFirst(body, model, subkey) ==
    IF body = "invalid" THEN 400
    ELSE IF body = "nonobject" THEN 500
    ELSE IF model = NoModel THEN 400
    ELSE IF require_subkey /\ subkey = NoSubkey THEN 401
    ELSE IF subkey # NoSubkey /\ quota_manager /\ ~IsRequestAllowed(quotas, usage, subkey, model) THEN 429
    ELSE IF subkey # NoSubkey /\ quota_manager /\ ~IsSubkeyAuthorized(quotas, lifecycle, subkey) THEN 403
    ELSE 0

GateStatus(body, model, subkey) ==
    IF body = "invalid" THEN 400
    ELSE IF body = "nonobject" THEN 500
    ELSE IF model = NoModel THEN 400
    ELSE IF require_subkey /\ subkey = NoSubkey THEN 401
    ELSE IF subkey # NoSubkey /\ quota_manager /\ ~IsSubkeyAuthorized(quotas, lifecycle, subkey) THEN 403
    ELSE IF subkey # NoSubkey /\ quota_manager /\ ~IsRequestAllowed(quotas, usage, subkey, model) THEN 429
    ELSE 0

\* Where the handler goes after the gates: every rejection raises HTTPException.
AfterGatesFallThrough(status) == IF status \in {0, 429} THEN "token" ELSE "done"

AfterGates(status) == IF status = 0 THEN "token" ELSE "done"

\* After the buffered response is recorded the handler returns it: no retry.
AfterBufferedRetry(status) == IF status >= 400 THEN "dispatch" ELSE "done"

AfterBuffered(status) == "done"

RecordsWithoutIdentity(subkey) == quota_manager

\* if caller_subkey and quota_manager: (the guard of both record_usage calls)
Records(subkey) == subkey # NoSubkey /\ quota_manager

\* The guard of the record_usage call after the stream: usage must have been collected.
StreamRecords(subkey, collected_usage) == Records(subkey) /\ collected_usage.set

\* The model names requests ask for, and the callers' identities.
RequestModels == {"gpt-4o", NoModel}
Callers == Subkeys \cup {NoSubkey}

\* A request arrives on the first free connection: await request.json() is about to return.
Arrive(r, body, model, subkey) ==
    /\ req[r].pc \in {"idle", "done"}
    /\ \A q \in Reqs : q < r => req[q].pc \notin {"idle", "done"}
    /\ arrivals < MaxArrivals
    /\ arrivals' = arrivals + 1
    /\ req' = [req EXCEPT ![r] = [IdleReq EXCEPT !.pc = "gates", !.body = body,
                                                 !.model = model, !.subkey = subkey]]
    /\ UNCHANGED <<storeVars, threadVars, resolved, tokenVars, require_subkey, hecVars, admin, dispatched>>

\* Parsing, model, identity, authorization gate and quota gate: no await in between.
\* The two store gates report a rejection with send_error_event before they raise.
Gates(r) ==
    /\ req[r].pc = "gates"
    /\ \E answer \in AnswersFor(splunk_hec) :
        LET body == req[r].body
            model == req[r].model
            subkey == req[r].subkey
            status == GateStatus(body, model, subkey)
            reads_store == body = "object" /\ model # NoModel /\ subkey # NoSubkey
            reports == status \in {403, 429}
            friendly_name == IF status = 429 THEN GetFriendlyName(names, subkey) ELSE "None"
            event == ErrorEvent(splunk_hec,
                                IF status = 403 THEN "unauthorized_subkey" ELSE "quota_exceeded",
                                subkey, model, friendly_name, now)
            sent == SendEvent(splunk_hec, answer)
        IN  /\ req' = [req EXCEPT ![r].pc = AfterGates(status),
                                  ![r].status = IF reports /\ sent.raised THEN 500 ELSE status,
                                  ![r].origin = IF status = 0 THEN "-" ELSE "gateway",
                                  ![r].lc_at_gate = IF reads_store THEN lifecycle[subkey].status ELSE "-",
                                  ![r].used_at_gate = IF reads_store THEN GetUsage(usage, subkey, model)[1] ELSE -1,
                                  ![r].telemetry = IF reports THEN Telemetry("error", answer, sent) ELSE @]
            /\ hec_sink' = IF reports THEN Posted(hec_sink, sent, event, subkey) ELSE hec_sink
    /\ UNCHANGED <<storeVars, threadVars, resolved, tokenVars, require_subkey, splunk_hec, arrivals, admin, dispatched>>

\* What get_access_token can give the handler: with a credential missing the cache is
\* never filled and every call reports the missing variables; otherwise the token, or
\* the failure of the refresh.
TokenOutcomes ==
    IF Missing(creds) # <<>> THEN {RaisedHTTP(500, Missing(creds))}
    ELSE {TokenResult("tok1"), RaisedHTTP(502, <<>>), RaisedOther}

\* Where the handler goes after get_access_token: any exception raises HTTPException.
AfterTokenFallThrough(result) == "dispatch"

AfterToken(result) == IF result.kind = "token" THEN "dispatch" ELSE "done"

\* await get_access_token(...): it returns a token or raises; except Exception: 502.
AcquireToken(r, result) ==
    /\ req[r].pc = "token"
    /\ req' = [req EXCEPT ![r].token_calls = @ + 1,
                          ![r].token = result,
                          ![r].pc = AfterToken(result),
                          ![r].status = IF result.kind = "token" THEN @ ELSE 502,
                          ![r].origin = IF result.kind = "token" THEN @ ELSE "gateway"]
    /\ UNCHANGED <<storeVars, threadVars, resolved, tokenVars, require_subkey, hecVars, arrivals, admin, dispatched>>

\* The handler issues its upstream chat POST for a request of subkey for model.
Dispatch(d, subkey, model) ==
    IF <<subkey, model>> \in DOMAIN d THEN [d EXCEPT ![<<subkey, model>>] = @ + 1] ELSE d

\* The except clauses around the upstream call: httpx.TimeoutException, then Exception.
FailureStatusAlways502(timeout) == 502

FailureStatus(timeout) == IF timeout THEN 504 ELSE 502

DispatchFailsRetry(r, timeout) ==
    /\ req[r].pc = "dispatch"
    /\ dispatched' = Dispatch(dispatched, req[r].subkey, req[r].model)
    /\ req' = [req EXCEPT ![r].posts = @ + 1,
                          ![r].pc = IF req[r].posts = 0 THEN "dispatch" ELSE "done",
                          ![r].path = IF timeout THEN "timeout" ELSE "transport",
                          ![r].status = FailureStatus(timeout),
                          ![r].origin = "gateway"]
    /\ UNCHANGED <<storeVars, threadVars, resolved, tokenVars, require_subkey, hecVars, arrivals, admin>>

\* await client.post(...) raises: a timeout is answered 504, anything else 502.
DispatchFails(r, timeout) ==
    /\ req[r].pc = "dispatch"
    /\ dispatched' = Dispatch(dispatched, req[r].subkey, req[r].model)
    /\ req' = [req EXCEPT ![r].posts = @ + 1,
                          ![r].pc = "done",
                          ![r].path = IF timeout THEN "timeout" ELSE "transport",
                          ![r].status = FailureStatus(timeout),
                          ![r].origin = "gateway"]
    /\ UNCHANGED <<storeVars, threadVars, resolved, tokenVars, require_subkey, hecVars, arrivals, admin>>

\* client.post returns a response that is not a stream: extract, record, relay.
DispatchBuffered(r, resp) ==
    /\ req[r].pc = "dispatch"
    /\ dispatched' = Dispatch(dispatched, req[r].subkey, req[r].model)
    /\ ~IsStreamingResponse(resp.ct)
    /\ \E answer \in AnswersFor(splunk_hec) :
        LET subkey == req[r].subkey
            model == req[r].model
            tokens == ExtractUsage(resp.ct, resp.body)
            event == UsageEvent(splunk_hec, subkey, model, tokens, GetNameAndEmail(names, subkey),
                                resp.status, FALSE, now)
            sent == SendEvent(splunk_hec, answer)
        IN  IF Records(subkey)
            THEN /\ usage' = RecordUsageStmt(usage, subkey, model, 1, tokens[1], tokens[2], tokens[3])
                 /\ applied' = [applied EXCEPT ![<<subkey, model>>] = @ + 1]
                 /\ started' = started \cup {<<subkey, model>>}
                 /\ hec_sink' = Posted(hec_sink, sent, event, subkey)
                 /\ req' = [req EXCEPT ![r].posts = @ + 1, ![r].pc = AfterBuffered(resp.status),
                                       ![r].up = resp, ![r].path = "buffered",
                                       ![r].status = IF sent.raised THEN 502 ELSE resp.status,
                                       ![r].origin = IF sent.raised THEN "gateway" ELSE "upstream",
                                       ![r].records = @ + 1,
                                       ![r].rec_args = <<1, tokens[1], tokens[2], tokens[3]>>,
                                       ![r].telemetry = Telemetry("usage", answer, sent)]
            ELSE /\ req' = [req EXCEPT ![r].posts = @ + 1, ![r].pc = AfterBuffered(resp.status),
                                       ![r].up = resp, ![r].path = "buffered",
                                       ![r].status = resp.status, ![r].origin = "upstream"]
                 /\ UNCHANGED <<usage, applied, started, hec_sink>>
    /\ UNCHANGED <<quotas, lifecycle, names, quotas_file, lock, th, calls, overlap, resolved, tokenVars,
                   require_subkey, splunk_hec, arrivals, admin>>

\* client.post returns an event-stream, its body read whole; a StreamingResponse with
\* that answer's status is returned around the generator.
DispatchStreaming(r, resp, n) ==
    /\ req[r].pc = "dispatch"
    /\ dispatched' = Dispatch(dispatched, req[r].subkey, req[r].model)
    /\ IsStreamingResponse(resp.ct)
    /\ req' = [req EXCEPT ![r].posts = @ + 1, ![r].pc = "stream_open", ![r].up = resp,
                          ![r].consumed = n,
                          ![r].status = resp.status, ![r].origin = "upstream"]
    /\ UNCHANGED <<storeVars, threadVars, resolved, tokenVars, require_subkey, hecVars, arrivals, admin>>

\* stream_with_usage_tracking re-opens the stream with a second POST.
StreamOpen(r, resp) ==
    /\ req[r].pc = "stream_open"
    /\ req' = [req EXCEPT ![r].posts = @ + 1, ![r].pc = "streaming",
                          ![r].stream = resp.lines, ![r].stream_status = resp.status,
                          ![r].lines = resp.lines, ![r].upstream_open = TRUE]
    /\ UNCHANGED <<storeVars, threadVars, resolved, tokenVars, require_subkey, hecVars, arrivals, admin, dispatched>>

\* The second POST raises inside the generator: the response is aborted.
StreamOpenFails(r) ==
    /\ req[r].pc = "stream_open"
    /\ req' = [req EXCEPT ![r].posts = @ + 1, ![r].pc = "done", ![r].path = "aborted"]
    /\ UNCHANGED <<storeVars, threadVars, resolved, tokenVars, require_subkey, hecVars, arrivals, admin, dispatched>>

\* The generator is resumed: parse_sse_stream takes the next upstream line, parses it
\* and yields; stream_with_usage_tracking keeps the usage and yields a non-empty chunk.
StreamRead(r) ==
    /\ req[r].pc = "streaming"
    /\ req[r].lines # <<>>
    /\ LET line == Head(req[r].lines)
           usage_data == ParseLine(line, req[r].usage_data)
           yielded == Yields(line, usage_data)
       IN  req' = [req EXCEPT ![r].lines = Tail(@),
                              ![r].consumed = @ + 1,
                              ![r].usage_data = usage_data,
                              ![r].collected_usage = IF yielded.usage.set THEN yielded.usage ELSE @,
                              ![r].chunk = yielded.chunk_bytes,
                              ![r].pc = IF yielded.chunk_bytes # EmptyChunk THEN "yielded" ELSE "streaming",
                              ![r].presented = @ \/ (line.is_data /\ line.content = "json"
                                                      /\ line.payload.has_usage)]
    /\ UNCHANGED <<storeVars, threadVars, resolved, tokenVars, require_subkey, hecVars, arrivals, admin, dispatched>>

\* The yielded chunk is handed to the client.
StreamYield(r) ==
    /\ req[r].pc = "yielded"
    /\ req' = [req EXCEPT ![r].forwarded = Append(@, req[r].chunk),
                          ![r].handed = @ + 1,
                          ![r].chunk = EmptyChunk,
                          ![r].pc = "streaming"]
    /\ UNCHANGED <<storeVars, threadVars, resolved, tokenVars, require_subkey, hecVars, arrivals, admin, dispatched>>

\* The client goes away while the stream is relayed: the generator is cancelled at the
\* point where it is suspended, the async with blocks release the upstream connection
\* and the code after them does not run.
ClientDisconnects(r) ==
    /\ req[r].pc \in {"streaming", "yielded"}
    /\ req' = [req EXCEPT ![r].pc = "done", ![r].path = "disconnected",
                          ![r].chunk = EmptyChunk, ![r].upstream_open = FALSE]
    /\ UNCHANGED <<storeVars, threadVars, resolved, tokenVars, require_subkey, hecVars, arrivals, admin, dispatched>>

\* The stream is drained: the parser's final yield, then the recording after the loop.
StreamEnd(r) ==
    /\ req[r].pc = "streaming"
    /\ req[r].lines = <<>>
    /\ \E answer \in AnswersFor(splunk_hec) :
        LET subkey == req[r].subkey
            model == req[r].model
            final == FinalYield(req[r].usage_data)
            collected_usage == IF req[r].usage_data.set /\ final.usage.set THEN final.usage
                               ELSE req[r].collected_usage
            tokens == <<collected_usage.prompt_tokens, collected_usage.completion_tokens,
                        collected_usage.total_tokens>>
            event == UsageEvent(splunk_hec, subkey, model, tokens, GetNameAndEmail(names, subkey),
                                req[r].up.status, TRUE, now)
            sent == SendEvent(splunk_hec, answer)
        IN  IF StreamRecords(subkey, collected_usage)
            THEN /\ usage' = RecordUsageStmt(usage, subkey, model, 1, collected_usage.prompt_tokens,
                                             collected_usage.completion_tokens,
                                             collected_usage.total_tokens)
                 /\ applied' = [applied EXCEPT ![<<subkey, model>>] = @ + 1]
                 /\ started' = started \cup {<<subkey, model>>}
                 /\ hec_sink' = Posted(hec_sink, sent, event, subkey)
                 /\ req' = [req EXCEPT ![r].pc = "done", ![r].path = "streamed",
                                       ![r].upstream_open = FALSE,
                                       ![r].collected_usage = collected_usage,
                                       ![r].records = @ + 1,
                                       ![r].rec_args = <<1, collected_usage.prompt_tokens,
                                                         collected_usage.completion_tokens,
                                                         collected_usage.total_tokens>>,
                                       ![r].telemetry = Telemetry("usage", answer, sent)]
            ELSE /\ req' = [req EXCEPT ![r].pc = "done", ![r].path = "streamed",
                                       ![r].upstream_open = FALSE,
                                       ![r].collected_usage = collected_usage]
                 /\ UNCHANGED <<usage, applied, started, hec_sink>>
    /\ UNCHANGED <<quotas, lifecycle, names, quotas_file, lock, th, calls, overlap, resolved, tokenVars,
                   require_subkey, splunk_hec, arrivals, admin, dispatched>>

----------------------------------------------------------------------------
(* rotate_key.py: revoke_key and activate_key, run by an administrator *)

RevokedEntry(subkey) == "_REVOKED_" \o subkey

\* quotas.json after revoke_key: every model of the key set to zero limits and a
\* metadata entry added; unchanged when the key has no entry.
RevokedQuotas(file, subkey, reason) ==
    IF subkey \notin DOMAIN file THEN file
    ELSE [k \in (DOMAIN file) \cup {RevokedEntry(subkey)} |->
            IF k = RevokedEntry(subkey) THEN [revoked_at |-> "now", reason |-> reason]
            ELSE IF k = subkey
            THEN [m \in DOMAIN file[subkey] |-> [requests |-> 0, total_tokens |-> 0]]
            ELSE file[k]]

RevokeKeyHardDelete(subkey, reason, replaced_by) ==
    /\ admin < MaxAdmin
    /\ admin' = admin + 1
    /\ resolved' = [op |-> "revoke_key", subkey |-> subkey, reason |-> reason,
                    replaced_by |-> replaced_by,
                    result |-> (subkey \in names /\ KeyStatus(lifecycle, subkey) = "active")]
    /\ IF subkey \notin names \/ KeyStatus(lifecycle, subkey) # "active"
       THEN UNCHANGED <<lifecycle, quotas_file, usage, names>>
       ELSE /\ lifecycle' = [lifecycle EXCEPT ![subkey] =
                                [status |-> IF replaced_by # NoKey THEN "replaced" ELSE "revoked",
                                 revoke_reason |-> reason,
                                 replaced_by |-> replaced_by,
                                 replaces |-> NoKey]]
            /\ quotas_file' = RevokedQuotas(quotas_file, subkey, reason)
            /\ usage' = {row \in usage : row.subkey # subkey}
            /\ names' = names \ {subkey}
    /\ UNCHANGED <<quotas, threadVars, tokenVars, require_subkey, hecVars, req, arrivals, dispatched>>

RevokeKeyUnguarded(subkey, reason, replaced_by) ==
    /\ admin < MaxAdmin
    /\ admin' = admin + 1
    /\ resolved' = [op |-> "revoke_key", subkey |-> subkey, reason |-> reason,
                    replaced_by |-> replaced_by, result |-> TRUE]
    /\ lifecycle' = [lifecycle EXCEPT ![subkey] =
                        [status |-> IF replaced_by # NoKey THEN "replaced" ELSE "revoked",
                         revoke_reason |-> reason,
                         replaced_by |-> replaced_by,
                         replaces |-> NoKey]]
    /\ quotas_file' = RevokedQuotas(quotas_file, subkey, reason)
    /\ UNCHANGED <<quotas, usage, names, threadVars, tokenVars, require_subkey, hecVars, req, arrivals, dispatched>>

\* revoke_key: refused for a key without a name record or not active; otherwise the
\* lifecycle row is written and quotas.json rewritten. No other table is touched.
RevokeKey(subkey, reason, replaced_by) ==
    /\ admin < MaxAdmin
    /\ admin' = admin + 1
    /\ resolved' = [op |-> "revoke_key", subkey |-> subkey, reason |-> reason,
                    replaced_by |-> replaced_by,
                    result |-> (subkey \in names /\ KeyStatus(lifecycle, subkey) = "active")]
    /\ IF subkey \notin names \/ KeyStatus(lifecycle, subkey) # "active"
       THEN UNCHANGED <<lifecycle, quotas_file>>
       ELSE /\ lifecycle' = [lifecycle EXCEPT ![subkey] =
                                [status |-> IF replaced_by # NoKey THEN "replaced" ELSE "revoked",
                                 revoke_reason |-> reason,
                                 replaced_by |-> replaced_by,
                                 replaces |-> NoKey]]
            /\ quotas_file' = RevokedQuotas(quotas_file, subkey, reason)
    /\ UNCHANGED <<quotas, usage, names, threadVars, tokenVars, require_subkey, hecVars, req, arrivals, dispatched>>

ActivateKey(subkey, replaces) ==
    /\ admin < MaxAdmin
    /\ admin' = admin + 1
    /\ resolved' = [op |-> "activate_key", subkey |-> subkey, replaces |-> replaces,
                    result |-> TRUE]
    /\ lifecycle' = [lifecycle EXCEPT ![subkey] =
                        [status |-> "active", revoke_reason |-> "-",
                         replaced_by |-> NoKey, replaces |-> replaces]]
    /\ UNCHANGED <<quotas, usage, names, quotas_file, threadVars, tokenVars, require_subkey, hecVars,
                   req, arrivals, dispatched>>

Init ==
    /\ quotas \in PipelinePolicies
    /\ usage = {}
    /\ lifecycle = [s \in Subkeys |-> NoRow]
    /\ lock = NoThread
    /\ th = [t \in Threads |-> IdleThread]
    /\ calls = 0
    /\ applied = [p \in Pairs |-> 0]
    /\ started = {}
    /\ overlap = {}
    /\ resolved = NoAnswer
    /\ names = Subkeys
    /\ quotas_file = quotas
    /\ require_subkey \in BOOLEAN
    /\ splunk_hec = HecDisabled
    /\ hec_sink = {}
    /\ dispatched = [p \in Pairs |-> 0]
    /\ req = [r \in Reqs |-> IdleReq]
    /\ arrivals = 0
    /\ admin = 0
    /\ token_cache = EmptyCache
    /\ now = StartTime
    /\ ticks = 0
    /\ tk = [c \in TokenCallers |-> IdleTokenCaller]
    /\ tcalls = 0
    /\ creds \in CredSamples

Next ==
    \/ \E r \in Reqs, body \in {"invalid", "nonobject"} : Arrive(r, body, NoModel, NoSubkey)
    \/ \E r \in Reqs, model \in RequestModels, subkey \in Callers : Arrive(r, "object", model, subkey)
    \/ \E r \in Reqs : Gates(r)
    \/ \E r \in Reqs, result \in TokenOutcomes : AcquireToken(r, result)
    \/ \E r \in Reqs, timeout \in BOOLEAN : DispatchFails(r, timeout)
    \/ \E r \in Reqs, resp \in UpstreamResponses : DispatchBuffered(r, resp)
    \/ \E r \in Reqs, resp \in UpstreamResponses : DispatchStreaming(r, resp, 3)
    \/ \E r \in Reqs, resp \in ConcurrentStreamResponses : StreamOpen(r, resp)
    \/ \E r \in Reqs : StreamOpenFails(r)
    \/ \E r \in Reqs : StreamRead(r)
    \/ \E r \in Reqs : StreamYield(r)
    \/ \E r \in Reqs : StreamEnd(r)
    \/ \E s \in Subkeys, replaced_by \in {"bob", NoKey} : RevokeKey(s, "rotation", replaced_by)
    \/ \E s \in Subkeys, replaces \in {"bob", NoKey} : ActivateKey(s, replaces)

Spec == Init /\ [][Next]_vars

\* One connection served at a time, with every stream sample, an error answer to the
\* re-opened stream, and clients that go away while the stream is relayed.
NextStream ==
    \/ \E body \in {"invalid", "nonobject"} : Arrive(1, body, NoModel, NoSubkey)
    \/ \E model \in RequestModels, subkey \in Callers : Arrive(1, "object", model, subkey)
    \/ Gates(1)
    \/ \E result \in TokenOutcomes : AcquireToken(1, result)
    \/ \E timeout \in BOOLEAN : DispatchFails(1, timeout)
    \/ \E resp \in UpstreamResponses \cup TotalsResponses : DispatchBuffered(1, resp)
    \/ \E resp \in UpstreamResponses, n \in FirstBodyLines : DispatchStreaming(1, resp, n)
    \/ \E resp \in StreamResponses : StreamOpen(1, resp)
    \/ StreamOpenFails(1)
    \/ StreamRead(1)
    \/ StreamYield(1)
    \/ ClientDisconnects(1)
    \/ StreamEnd(1)

SpecStream == Init /\ [][NextStream]_vars

----------------------------------------------------------------------------
(* Claims on the pipeline *)

HasIdentity(r) == req[r].subkey # NoSubkey

\* The request got past every gate (it went on to token acquisition).
PassedGates(r) == req[r].pc = "token" \/ req[r].token_calls > 0

\* The gateway itself answered the request at a gate.
RejectedAtGate(r) == req[r].pc = "done" /\ req[r].origin = "gateway" /\ req[r].token_calls = 0

\* What the usage-extraction step is specified to give: the counts of the usage object
\* (total = prompt + completion when absent), zeros when there is none or extraction fails.
ExtractedOrZeros(resp) == ExtractUsageAllOrNothing(resp.ct, resp.body)

\* C1: a request with an identity that got a buffered upstream response has called
\* record_usage exactly once, with request_inc 1 and the extracted token counts, zeros
\* when extraction failed or there was no usage; whatever the upstream status.
C1_BufferedRecordsOnce ==
    \A r \in Reqs :
        (req[r].pc = "done" /\ req[r].path = "buffered" /\ HasIdentity(r)) =>
            /\ req[r].records = 1
            /\ req[r].rec_args = <<1>> \o ExtractedOrZeros(req[r].up)

\* C2: a drained stream that never presented a usage object, for a request with an
\* identity, is recorded as one request with zero tokens.
C2_StreamWithoutUsageRecordsZeros ==
    \A r \in Reqs :
        (req[r].pc = "done" /\ req[r].path = "streamed" /\ HasIdentity(r) /\ ~req[r].presented) =>
            /\ req[r].records = 1
            /\ req[r].rec_args = <<1, 0, 0, 0>>

\* C5: every request that got past the quota gate of a pair with requests limit N was
\* admitted on a read of the counter below N, and nothing re-checks at record time; so
\* requests admitted on the same stale read push the counter above N (the witness).
C5_AdmittedOnReadBelowLimit ==
    \A r \in Reqs :
        (PassedGates(r) /\ HasIdentity(r) /\ HasRequestsLimit(req[r].subkey, req[r].model)) =>
            /\ req[r].used_at_gate >= 0
            /\ req[r].used_at_gate < RequestsLimit(req[r].subkey, req[r].model)

\* C5 witness: two requests of one pair both passed the gate on a read of 0 < N and
\* both recorded: the counter is now above N.
C5_Witness ==
    \E r1, r2 \in Reqs :
        /\ r1 # r2
        /\ req[r1].subkey = req[r2].subkey /\ req[r1].model = req[r2].model
        /\ HasIdentity(r1) /\ HasRequestsLimit(req[r1].subkey, req[r1].model)
        /\ req[r1].records = 1 /\ req[r2].records = 1
        /\ req[r1].used_at_gate = 0 /\ req[r2].used_at_gate = 0
        /\ GetUsage(usage, req[r1].subkey, req[r1].model)[1]
              > RequestsLimit(req[r1].subkey, req[r1].model)

\* C6: at the authorization gate a subkey is refused (403) exactly when it has no
\* policy entry or the lifecycle status stored at that moment is revoked or replaced;
\* no lifecycle row, or an active one, is accepted.
C6_AuthorizedIffInPolicyAndNotRevoked ==
    \A r \in Reqs :
        (req[r].lc_at_gate # "-" /\ req[r].pc # "gates") =>
            (RejectedAtGate(r) /\ req[r].status = 403)
              = (req[r].subkey \notin DOMAIN quotas \/ req[r].lc_at_gate \in {"revoked", "replaced"})

\* C6 witness: a subkey of the policy, revoked after start-up, is refused.
C6_Witness ==
    \E r \in Reqs :
        /\ RejectedAtGate(r) /\ req[r].status = 403
        /\ req[r].subkey \in DOMAIN quotas
        /\ req[r].lc_at_gate = "revoked"

\* C7: a request the gateway itself answered 400, 401, 403 or 429 acquired no token,
\* made no upstream call and recorded no usage.
C7_RejectionHasNoEffect ==
    \A r \in Reqs :
        (req[r].origin = "gateway" /\ req[r].status \in {400, 401, 403, 429}) =>
            /\ req[r].token_calls = 0
            /\ req[r].posts = 0
            /\ req[r].records = 0

\* C7 witness: a quota rejection while the pair already has usage on record.
C7_Witness ==
    \E r \in Reqs :
        /\ RejectedAtGate(r) /\ req[r].status = 429
        /\ GetUsage(usage, req[r].subkey, req[r].model)[1] = 1
        /\ req[r].token_calls = 0 /\ req[r].posts = 0 /\ req[r].records = 0

\* What the store said at the gates, from the values read there.
AuthorizedAtGate(r) ==
    req[r].subkey \in DOMAIN quotas /\ req[r].lc_at_gate \notin {"revoked", "replaced"}
AllowedAtGate(r) ==
    HasRequestsLimit(req[r].subkey, req[r].model) =>
        req[r].used_at_gate < RequestsLimit(req[r].subkey, req[r].model)

C10_AtMostOnce ==
    /\ \A r \in Reqs :
          /\ req[r].records <= 1
          /\ req[r].records = 1 => req[r].rec_args[1] = 1
    /\ \A s \in Subkeys, m \in Models : GetUsage(usage, s, m)[1] = applied[<<s, m>>]

\* C10 witness: a streamed and a buffered request of one pair have each recorded once.
C10_Witness ==
    \E r1, r2 \in Reqs :
        /\ req[r1].path = "streamed" /\ req[r2].path = "buffered"
        /\ req[r1].records = 1 /\ req[r2].records = 1
        /\ req[r1].subkey = req[r2].subkey /\ req[r1].model = req[r2].model
        /\ GetUsage(usage, req[r1].subkey, req[r1].model)[1] = 2

----------------------------------------------------------------------------
(* Claims on the stream relay *)

\* The response is being streamed to the client, or was.
Streamed(r) == req[r].pc \in {"streaming", "yielded"} \/ req[r].path \in {"streamed", "disconnected"}

\* C11: the chunks handed to the client are the upstream lines of the relayed stream,
\* each with its line end, in upstream order: always a prefix of them while the stream
\* is relayed, and all of them, once each, when it has drained.
C11_ForwardsEveryLineOnceInOrder ==
    \A r \in Reqs :
        Streamed(r) =>
            /\ Len(req[r].forwarded) <= Len(req[r].stream)
            /\ \A i \in 1..Len(req[r].forwarded) : req[r].forwarded[i] = <<req[r].stream[i], "\n">>
            /\ req[r].path = "streamed" => Len(req[r].forwarded) = Len(req[r].stream)

\* C11 witness: a drained stream with a malformed data line and a comment line, all
\* three lines forwarded.
C11_Witness ==
    \E r \in Reqs :
        /\ req[r].path = "streamed"
        /\ Len(req[r].forwarded) = 3
        /\ \E i \in 1..3 : ~req[r].stream[i].is_data
        /\ \E i \in 1..3 : req[r].stream[i].content = "malformed"

\* C12: for a streamed response, the upstream lines the gateway has read are at most
\* one more than the lines it has handed to the client.
C12_NeverBuffersAhead ==
    \A r \in Reqs :
        IsStreamingResponse(req[r].up.ct) => req[r].consumed - req[r].handed <= 1

\* A data line whose JSON has a usage object with numeric counts.
WellFormedUsage(line) ==
    /\ line.is_data /\ line.content = "json"
    /\ line.payload.is_dict /\ line.payload.has_usage /\ line.payload.usage_is_dict
    /\ \A k \in DOMAIN line.payload.usage : line.payload.usage[k].tag = "int"

UsageLines(lines) == {i \in 1..Len(lines) : WellFormedUsage(lines[i])}

\* The usage object of the last such line, absent counts read as 0.
LastUsage(lines) ==
    LET last == CHOOSE i \in UsageLines(lines) : \A j \in UsageLines(lines) : j <= i
        u == lines[last].payload.usage
    IN  [k \in TokenKeys |-> IF k \in DOMAIN u THEN u[k].val ELSE 0]

\* C13: a drained stream with at least one well-formed usage line, for a request with
\* an identity, is recorded once as requests=1 with the counts of the last such line.
C13_StreamRecordsLastUsage ==
    \A r \in Reqs :
        (req[r].path = "streamed" /\ HasIdentity(r) /\ UsageLines(req[r].stream) # {}) =>
            /\ req[r].records = 1
            /\ req[r].rec_args = <<1, LastUsage(req[r].stream)["prompt_tokens"],
                                      LastUsage(req[r].stream)["completion_tokens"],
                                      LastUsage(req[r].stream)["total_tokens"]>>

\* C13 witness: two usage lines then a usage line that fails to parse; the second
\* usage line's counts are recorded.
C13_Witness ==
    \E r \in Reqs :
        /\ req[r].path = "streamed"
        /\ req[r].stream = <<UsageLine(1, 1, 2), UsageLine(2, 3, 5), BadUsageLine>>
        /\ req[r].records = 1
        /\ req[r].rec_args = <<1, 2, 3, 5>>
        /\ GetUsage(usage, req[r].subkey, req[r].model)[4] >= 5

\* C14: after the client disconnected from a stream, the upstream connection is
\* released and the request is accounted: one request recorded with the usage captured
\* up to the disconnection, zeros when none was.
C14_DisconnectStillAccounted ==
    \A r \in Reqs :
        (req[r].path = "disconnected" /\ HasIdentity(r)) =>
            /\ ~req[r].upstream_open
            /\ req[r].records = 1
            /\ req[r].rec_args = <<1, req[r].usage_data.prompt_tokens,
                                      req[r].usage_data.completion_tokens,
                                      req[r].usage_data.total_tokens>>

\* C15: the status the client receives is the status of the upstream answer whose
\* body or stream is relayed: the only answer on the buffered path, the answer to the
\* re-opened stream on the streaming path.
C15_StatusOfRelayedResponse ==
    \A r \in Reqs :
        /\ req[r].path = "buffered" => req[r].status = req[r].up.status
        /\ Streamed(r) => req[r].status = req[r].stream_status

\* Token acquisition failed for the request.
TokenFailed(r) == req[r].token.kind \in {"HTTPException", "exception"}

\* C18: a request whose token acquisition failed is answered 502 by the gateway, has
\* made no upstream chat call and has recorded no usage.
C18_TokenFailureIs502 ==
    \A r \in Reqs :
        TokenFailed(r) =>
            /\ req[r].pc = "done"
            /\ req[r].status = 502 /\ req[r].origin = "gateway"
            /\ req[r].posts = 0
            /\ req[r].records = 0

\* C18 witness: a request with an identity passed every gate and failed at the token.
C18_Witness ==
    \E r \in Reqs :
        /\ TokenFailed(r) /\ HasIdentity(r)
        /\ req[r].used_at_gate = 0
        /\ req[r].status = 502
        /\ req[r].posts = 0 /\ req[r].records = 0
        /\ GetUsage(usage, req[r].subkey, req[r].model) = <<0, 0, 0, 0>>

\* C19: an upstream call that timed out is answered 504, one that failed otherwise
\* 502, and in both cases the request has recorded no usage.
C19_TimeoutIs504ElseIs502 ==
    \A r \in Reqs :
        /\ req[r].path = "timeout" =>
              req[r].status = 504 /\ req[r].origin = "gateway" /\ req[r].records = 0
        /\ req[r].path = "transport" =>
              req[r].status = 502 /\ req[r].origin = "gateway" /\ req[r].records = 0

\* C19 witness: a request with an identity timed out upstream; nothing is on record.
C19_Witness ==
    \E r \in Reqs :
        /\ req[r].path = "timeout" /\ HasIdentity(r)
        /\ req[r].status = 504
        /\ req[r].posts = 1 /\ req[r].records = 0
        /\ GetUsage(usage, req[r].subkey, req[r].model) = <<0, 0, 0, 0>>

\* C21: a request that reached token acquisition while an OAuth credential is missing
\* is answered with the 500 that get_access_token raised for the missing variables,
\* not with another status.
C21_MissingCredentialsAnswered500 ==
    \A r \in Reqs :
        (req[r].token.kind = "HTTPException" /\ req[r].token.missing # <<>>) =>
            req[r].status = req[r].token.status /\ req[r].status = 500

\* C22: usage counters are monotone. In every step of every interleaving of
\* record_usage calls, whose deltas include negative ones, none of requests,
\* prompt_tokens, completion_tokens and total_tokens of any (subkey, model) record
\* decreases, and a call that commits leaves a record for its pair, creating it if
\* there was none.
C22_CountersMonotone ==
    [][ /\ \A s \in Subkeys, m \in Models :
              \A i \in 1..4 : GetUsage(usage', s, m)[i] >= GetUsage(usage, s, m)[i]
        /\ \A t \in Threads :
              (th[t].pc = "commit" /\ th'[t].pc = "idle") =>
                  Cardinality(RowsFor(usage', th[t].subkey, th[t].model)) = 1
      ]_vars

\* C22 witness: a call with negative request, completion and total deltas has
\* executed its statement on a pair that already had counts; only the positive
\* prompt delta was added.
C22_Witness ==
    \E t \in Threads :
        /\ th[t].pc = "commit"
        /\ th[t].args = <<-1, 2, -3, -1>>
        /\ GetUsage(usage, th[t].subkey, th[t].model) = <<1, 2, 3, 5>>
        /\ GetUsage(th[t].conn, th[t].subkey, th[t].model) = <<1, 4, 3, 5>>

----------------------------------------------------------------------------
(* will_exceed_tokens on its own: every policy, stored totals, signed arguments *)

\* Usage tables record_usage leaves behind: none, one pair, two pairs of one subkey.
UsageSamples ==
    { {},
      {Row("alice", "gpt-4o", 1, 0, 0, 1)},
      {Row("alice", "gpt-4o", 1, 1, 1, 2)},
      {Row("alice", "gpt-4o", 2, 2, 3, 5), Row("alice", "gpt-4o-mini", 1, 0, 0, 1)} }

\* Values of next_total_tokens a caller passes, negative ones included.
NextTotalTokens == -2..2

WillExceedTokensCall(s, m, x) ==
    /\ resolved' = [op |-> "will_exceed_tokens", subkey |-> s, model |-> m,
                    next_total_tokens |-> x,
                    result |-> WillExceedTokens(quotas, usage, s, m, x)]
    /\ UNCHANGED <<storeVars, threadVars, pipeVars, hecVars, tokenVars>>

InitBudget ==
    /\ quotas \in AllPolicies
    /\ usage \in UsageSamples
    /\ lifecycle = [s \in Subkeys |-> NoRow]
    /\ lock = NoThread
    /\ th = [t \in Threads |-> IdleThread]
    /\ calls = 0
    /\ applied = [p \in Pairs |-> 0]
    /\ started = {}
    /\ overlap = {}
    /\ resolved = NoAnswer
    /\ names = {}
    /\ quotas_file = quotas
    /\ require_subkey = FALSE
    /\ splunk_hec = HecDisabled
    /\ hec_sink = {}
    /\ dispatched = [p \in Pairs |-> 0]
    /\ req = [r \in Reqs |-> IdleReq]
    /\ arrivals = 0
    /\ admin = 0
    /\ token_cache = EmptyCache
    /\ now = StartTime
    /\ ticks = 0
    /\ tk = [c \in TokenCallers |-> IdleTokenCaller]
    /\ tcalls = 0
    /\ creds = Configured

NextBudget ==
    \E s \in Subkeys, m \in Models, x \in NextTotalTokens : WillExceedTokensCall(s, m, x)

SpecBudget == InitBudget /\ [][NextBudget]_vars

\* The stored total_tokens of (s, m): the row's column, 0 when the pair has no row.
StoredTotal(s, m) ==
    IF \E row \in usage : row.subkey = s /\ row.model = m
    THEN (CHOOSE row \in usage : row.subkey = s /\ row.model = m).total_tokens
    ELSE 0

\* The effective total_tokens limit of (s, m) is configured: by the model entry or by "*".
HasTotalLimit(s, m) == Defines(s, m, "total_tokens") \/ Defines(s, Wildcard, "total_tokens")
TotalLimit(s, m) ==
    IF Defines(s, m, "total_tokens") THEN quotas[s][m]["total_tokens"]
    ELSE quotas[s][Wildcard]["total_tokens"]

\* C23: will_exceed_tokens(subkey, model, x) answers true iff an effective
\* total_tokens limit T is configured and U + max(0, x) > T for the stored total U;
\* with no total_tokens limit it answers false for every x.
C23_ExceedsIffOverLimit ==
    resolved.op = "will_exceed_tokens" =>
        LET s == resolved.subkey
            m == resolved.model
            x == resolved.next_total_tokens
            clamped == IF x < 0 THEN 0 ELSE x
        IN  resolved.result =
               (HasTotalLimit(s, m) /\ StoredTotal(s, m) + clamped > TotalLimit(s, m))

\* C23 witness: the stored total is already over the limit and the argument is
\* negative enough to bring the sum back under it; the answer is still true.
C23_Witness ==
    /\ resolved.op = "will_exceed_tokens"
    /\ resolved.next_total_tokens < 0
    /\ HasTotalLimit(resolved.subkey, resolved.model)
    /\ StoredTotal(resolved.subkey, resolved.model) > TotalLimit(resolved.subkey, resolved.model)
    /\ StoredTotal(resolved.subkey, resolved.model) + resolved.next_total_tokens
          <= TotalLimit(resolved.subkey, resolved.model)
    /\ resolved.result

----------------------------------------------------------------------------
(* Key rotation against a database that already holds lifecycle rows *)

\* key_lifecycle tables an earlier run of the rotation tool left in the database.
LifecycleSamples ==
    { [s \in Subkeys |-> NoRow],
      [s \in Subkeys |-> IF s = "alice"
                         THEN [status |-> "revoked", revoke_reason |-> "compromised",
                               replaced_by |-> NoKey, replaces |-> NoKey]
                         ELSE NoRow],
      [s \in Subkeys |-> IF s = "alice"
                         THEN [status |-> "replaced", revoke_reason |-> "compromised",
                               replaced_by |-> "bob", replaces |-> NoKey]
                         ELSE [status |-> "active", revoke_reason |-> "-",
                               replaced_by |-> NoKey, replaces |-> "alice"]] }

InitKeys ==
    /\ quotas \in PipelinePolicies
    /\ usage = {}
    /\ lifecycle \in LifecycleSamples
    /\ lock = NoThread
    /\ th = [t \in Threads |-> IdleThread]
    /\ calls = 0
    /\ applied = [p \in Pairs |-> 0]
    /\ started = {}
    /\ overlap = {}
    /\ resolved = NoAnswer
    /\ names \in {Subkeys, {"alice"}}
    /\ quotas_file = quotas
    /\ require_subkey \in BOOLEAN
    /\ splunk_hec = HecDisabled
    /\ hec_sink = {}
    /\ dispatched = [p \in Pairs |-> 0]
    /\ req = [r \in Reqs |-> IdleReq]
    /\ arrivals = 0
    /\ admin = 0
    /\ token_cache = EmptyCache
    /\ now = StartTime
    /\ ticks = 0
    /\ tk = [c \in TokenCallers |-> IdleTokenCaller]
    /\ tcalls = 0
    /\ creds = Configured

\* One connection served at a time on the buffered path, and the rotation tool.
NextKeys ==
    \/ \E model \in RequestModels, subkey \in Callers : Arrive(1, "object", model, subkey)
    \/ Gates(1)
    \/ \E result \in TokenOutcomes : AcquireToken(1, result)
    \/ \E timeout \in BOOLEAN : DispatchFails(1, timeout)
    \/ \E resp \in UpstreamResponses : DispatchBuffered(1, resp)
    \/ \E s \in Subkeys, replaced_by \in {"bob", NoKey} : RevokeKey(s, "rotation", replaced_by)
    \/ \E s \in Subkeys, replaces \in {"bob", NoKey} : ActivateKey(s, replaces)

SpecKeys == InitKeys /\ [][NextKeys]_vars

Revoked(s) == lifecycle[s].status \in {"revoked", "replaced"}

\* C24: revocation is permanent. No step of revoke_key, activate_key or the pipeline
\* taken from a state in which the lifecycle state of a subkey is revoked or replaced
\* leads to a state in which is_authorized(subkey) is true, so that it stays false in
\* every later state.
C24_RevocationIsPermanent ==
    [][ \A s \in Subkeys : Revoked(s) => ~IsSubkeyAuthorized(quotas', lifecycle', s) ]_vars

\* C25: the step that sets a subkey's lifecycle state to revoked or replaced leaves
\* every counter of every usage record and every friendly name as they were, and
\* is_authorized of that subkey is false after it.
C25_RevocationKeepsHistory ==
    [][ \A s \in Subkeys :
            (~Revoked(s) /\ Revoked(s)') =>
                /\ \A k \in Subkeys, m \in Models : GetUsage(usage', k, m) = GetUsage(usage, k, m)
                /\ \A k \in Subkeys : GetFriendlyName(names', k) = GetFriendlyName(names, k)
                /\ ~IsSubkeyAuthorized(quotas', lifecycle', s)
      ]_vars

\* C25 witness: a key of the policy that has a friendly name was served and has usage
\* on record; the rotation tool then replaced it, and the record is still there.
C25_Witness ==
    \E s \in Subkeys :
        /\ s \in DOMAIN quotas
        /\ lifecycle[s].status = "replaced" /\ lifecycle[s].revoke_reason = "rotation"
        /\ admin = 1
        /\ GetUsage(usage, s, "gpt-4o")[1] = 1
        /\ GetFriendlyName(names, s) = "name of " \o s
        /\ ~IsSubkeyAuthorized(quotas, lifecycle, s)

----------------------------------------------------------------------------
(* Claims on the total recorded on the buffered path *)

\* The request took the buffered path, recorded usage, and the upstream body is JSON
\* holding a usage object whose prompt_tokens and completion_tokens are integers.
BufferedWithParts(r) ==
    /\ req[r].path = "buffered" /\ req[r].records = 1
    /\ ContainsJson(req[r].up.ct) /\ req[r].up.body.has_content /\ req[r].up.body.parses
    /\ req[r].up.body.payload.is_dict /\ req[r].up.body.payload.has_usage
    /\ req[r].up.body.payload.usage_is_dict
    /\ \A k \in {"prompt_tokens", "completion_tokens"} :
          k \in DOMAIN req[r].up.body.payload.usage /\ req[r].up.body.payload.usage[k].tag = "int"

UsageOf(r) == req[r].up.body.payload.usage
PartsSum(r) == UsageOf(r)["prompt_tokens"].val + UsageOf(r)["completion_tokens"].val

----------------------------------------------------------------------------
(* extract_subkey on its own: header values as sequences of characters *)

\* A header of the request: absent, or present with a value.
NoHeader == [present |-> FALSE, value |-> <<>>]
Header(value) == [present |-> TRUE, value |-> value]

\* What extract_subkey returns: None, or a string.
None == [some |-> FALSE, value |-> <<>>]
Some(value) == [some |-> TRUE, value |-> value]

IsSpace(ch) == ch \in {" ", "\t"}

\* str.strip(): leading and trailing whitespace removed.
RECURSIVE LStrip(_)
LStrip(s) == IF s # <<>> /\ IsSpace(Head(s)) THEN LStrip(Tail(s)) ELSE s
RECURSIVE RStrip(_)
RStrip(s) == IF s # <<>> /\ IsSpace(s[Len(s)]) THEN RStrip(SubSeq(s, 1, Len(s) - 1)) ELSE s
Strip(s) == RStrip(LStrip(s))

\* str.lower() on the letters the samples use.
LowerChar(ch) ==
    CASE ch = "B" -> "b" [] ch = "E" -> "e" [] ch = "A" -> "a" [] ch = "R" -> "r"
      [] ch = "T" -> "t" [] OTHER -> ch
Lower(s) == [i \in 1..Len(s) |-> LowerChar(s[i])]

\* str.startswith(prefix)
StartsWith(s, prefix) == Len(s) >= Len(prefix) /\ SubSeq(s, 1, Len(prefix)) = prefix

\* s.split(" ", 1)[1]: what follows the first space of a string that has one.
RECURSIVE AfterFirstSpace(_)
AfterFirstSpace(s) == IF Head(s) = " " THEN Tail(s) ELSE AfterFirstSpace(Tail(s))

BearerPrefix == <<"b", "e", "a", "r", "e", "r", " ">>

ExtractSubkeyAuthorizationFirst(subkey, auth) ==
    IF auth.present /\ auth.value # <<>> /\ StartsWith(Lower(auth.value), BearerPrefix)
    THEN Some(Strip(AfterFirstSpace(auth.value)))
    ELSE IF subkey.present /\ subkey.value # <<>>
    THEN Some(Strip(subkey.value))
    ELSE None

\* extract_subkey(request), from the X-Bridge-Subkey and Authorization headers.
ExtractSubkey(subkey, auth) ==
    IF subkey.present /\ subkey.value # <<>>
    THEN Some(Strip(subkey.value))
    ELSE IF auth.present /\ auth.value # <<>> /\ StartsWith(Lower(auth.value), BearerPrefix)
    THEN Some(Strip(AfterFirstSpace(auth.value)))
    ELSE None

\* Values of the X-Bridge-Subkey header.
SubkeyHeaders ==
    { NoHeader,
      Header(<<>>),
      Header(<<" ">>),
      Header(<<"a", "b", "c">>),
      Header(<<" ", "a", "b", "c", " ">>),
      Header(<<"\t", "a", "b", "c">>),
      Header(<<"a", " ", "b">>),
      Header(<<"d", "e", "f">>),
      Header(<<"B", "e", "a", "r", "e", "r", " ", "x">>) }

\* Values of the Authorization header.
AuthorizationHeaders ==
    { NoHeader,
      Header(<<>>),
      Header(<<"B", "e", "a", "r", "e", "r", " ", "d", "e", "f">>),
      Header(<<"b", "e", "a", "r", "e", "r", " ", "d", "e", "f">>),
      Header(<<"B", "E", "A", "R", "E", "R", " ", "d", "e", "f">>),
      Header(<<"B", "e", "a", "r", "e", "r", " ", " ", "d", "e", "f", " ">>),
      Header(<<"B", "e", "a", "r", "e", "r">>),
      Header(<<"B", "e", "a", "r", "e", "r", " ">>),
      Header(<<"B", "e", "a", "r", "e", "r", "d", "e", "f">>),
      Header(<<"B", "e", "a", "r", "e", "r", "\t", "d", "e", "f">>),
      Header(<<" ", "B", "e", "a", "r", "e", "r", " ", "d", "e", "f">>),
      Header(<<"B", "a", "s", "i", "c", " ", "d", "e", "f">>),
      Header(<<"T", "o", "k", "e", "n", " ", "a", "b", "c">>) }

ExtractSubkeyCall(subkey, auth) ==
    /\ resolved' = [op |-> "extract_subkey", subkey |-> subkey, auth |-> auth,
                    result |-> ExtractSubkey(subkey, auth)]
    /\ UNCHANGED <<storeVars, threadVars, pipeVars, hecVars, tokenVars>>

InitExtract ==
    /\ quotas = EmptyDict
    /\ usage = {}
    /\ lifecycle = [s \in Subkeys |-> NoRow]
    /\ lock = NoThread
    /\ th = [t \in Threads |-> IdleThread]
    /\ calls = 0
    /\ applied = [p \in Pairs |-> 0]
    /\ started = {}
    /\ overlap = {}
    /\ resolved = NoAnswer
    /\ names = {}
    /\ quotas_file = quotas
    /\ require_subkey = FALSE
    /\ splunk_hec = HecDisabled
    /\ hec_sink = {}
    /\ dispatched = [p \in Pairs |-> 0]
    /\ req = [r \in Reqs |-> IdleReq]
    /\ arrivals = 0
    /\ admin = 0
    /\ token_cache = EmptyCache
    /\ now = StartTime
    /\ ticks = 0
    /\ tk = [c \in TokenCallers |-> IdleTokenCaller]
    /\ tcalls = 0
    /\ creds = Configured

NextExtract ==
    \E subkey \in SubkeyHeaders, auth \in AuthorizationHeaders : ExtractSubkeyCall(subkey, auth)

SpecExtract == InitExtract /\ [][NextExtract]_vars

\* The value has no whitespace at either end.
Trimmed(s) == s = <<>> \/ (~IsSpace(s[1]) /\ ~IsSpace(s[Len(s)]))

\* s is t with whitespace added at the ends only.
PaddingOf(s, t) ==
    \E i, j \in 0..Len(s) :
        /\ i + Len(t) + j = Len(s)
        /\ SubSeq(s, i + 1, i + Len(t)) = t
        /\ \A k \in (1..i) \cup ((Len(s) - j + 1)..Len(s)) : IsSpace(s[k])

\* The value is the Bearer scheme, in any letter case, a space, and rest.
BearerWith(s, rest) ==
    /\ Len(s) = 7 + Len(rest)
    /\ \A i \in 1..6 : LowerChar(s[i]) = <<"b", "e", "a", "r", "e", "r">>[i]
    /\ s[7] = " "
    /\ SubSeq(s, 8, Len(s)) = rest
UsesBearer(h) == h.present /\ Len(h.value) >= 7 /\ BearerWith(h.value, SubSeq(h.value, 8, Len(h.value)))

\* C30: extract_subkey returns the value of the explicit caller-identity header,
\* trimmed of surrounding whitespace, whenever that header is present and non-empty,
\* whatever the Authorization header holds; otherwise the trimmed value after the
\* Bearer scheme of the Authorization header; and no identity when the explicit header
\* is absent or empty and the Authorization header is absent or uses another scheme.
C30_HeaderThenBearerElseNone ==
    resolved.op = "extract_subkey" =>
        LET h == resolved.subkey
            a == resolved.auth
            out == resolved.result
        IN  IF h.present /\ Len(h.value) > 0
            THEN out.some /\ Trimmed(out.value) /\ PaddingOf(h.value, out.value)
            ELSE IF UsesBearer(a)
            THEN /\ out.some /\ Trimmed(out.value)
                 /\ PaddingOf(SubSeq(a.value, 8, Len(a.value)), out.value)
            ELSE ~out.some

\* C30 witness: both headers are supplied, the Authorization header carries Bearer def,
\* and the identity returned is the explicit header's abc.
C30_Witness ==
    /\ resolved.op = "extract_subkey"
    /\ resolved.subkey = Header(<<"a", "b", "c">>)
    /\ resolved.auth = Header(<<"B", "e", "a", "r", "e", "r", " ", "d", "e", "f">>)
    /\ resolved.result = Some(<<"a", "b", "c">>)

----------------------------------------------------------------------------
(* The user field of the outgoing payload (appkey injection) on its own *)

\* config.circuit_appkey: "" when CIRCUIT_APPKEY is not set.
AppkeySamples == {"", "ak", "k2"}
Configurable == AppkeySamples \ {""}

\* A JSON value of req_data.get("user"). A string carries what json.loads makes of it
\* (json), the object it holds (obj) and the appkeys that occur in its text (mentions);
\* a dict its keys and values (obj); a list its elements (items); a number or a
\* boolean its value (val).
UserValue(kind, json, obj, mentions, items, val) ==
    [kind |-> kind, json |-> json, obj |-> obj, mentions |-> mentions, items |-> items, val |-> val]
AbsentUser == UserValue("absent", "-", EmptyDict, {}, {}, 0)
NullUser == UserValue("null", "-", EmptyDict, {}, {}, 0)
StrObject(obj, mentions) == UserValue("str", "object", obj, mentions, {}, 0)
StrOther(json, mentions) == UserValue("str", json, EmptyDict, mentions, {}, 0)
EmptyStr == UserValue("str", "empty", EmptyDict, {}, {}, 0)
IntUser(n) == UserValue("int", "-", EmptyDict, {}, {}, n)
BoolUser(b) == UserValue("bool", "-", EmptyDict, {}, {}, IF b THEN 1 ELSE 0)
DictUser(obj) == UserValue("dict", "-", obj, {}, {}, 0)
ListUser(items) == UserValue("list", "-", EmptyDict, {}, items, 0)

UserObjects == {EmptyDict, [id |-> "u1"], [appkey |-> "old"], [id |-> "u1", team |-> "t"]}

UserSamples ==
    {AbsentUser, NullUser, EmptyStr}
    \cup {StrObject(obj, ms) : obj \in UserObjects, ms \in SUBSET Configurable}
    \cup {StrObject([appkey |-> "ak"], ms) : ms \in {{"ak"}, {"ak", "k2"}}}
    \cup {StrOther(json, ms) : json \in {"notjson", "array", "string"}, ms \in SUBSET Configurable}
    \cup {StrOther(json, {}) : json \in {"number", "null"}}
    \cup {IntUser(n) : n \in {-1, 0, 5}}
    \cup {BoolUser(b) : b \in BOOLEAN}
    \cup {DictUser(obj) : obj \in {EmptyDict, [id |-> "u1"], [ak |-> "v"], [id |-> "u1", ak |-> "v"]}}
    \cup {ListUser(items) : items \in SUBSET {"a", "ak"}}

\* not user_field
Falsy(u) ==
    \/ u.kind \in {"absent", "null"}
    \/ u.kind = "str" /\ u.json = "empty"
    \/ u.kind \in {"int", "bool"} /\ u.val = 0
    \/ u.kind = "dict" /\ DOMAIN u.obj = {}
    \/ u.kind = "list" /\ u.items = {}

\* config.circuit_appkey not in user_field: a substring test on a string, a key test
\* on a dict, an element test on a list, TypeError on a number or a boolean.
NotInRaises(u) == u.kind \in {"int", "bool"}
NotIn(appkey, u) ==
    CASE u.kind = "str" -> appkey \notin u.mentions
      [] u.kind = "dict" -> appkey \notin DOMAIN u.obj
      [] u.kind = "list" -> appkey \notin u.items
      [] OTHER -> FALSE

\* json.dumps of the dict d after d["appkey"] = appkey
DumpsWithAppkey(obj, mentions, appkey) ==
    StrObject([k \in (DOMAIN obj) \cup {"appkey"} |-> IF k = "appkey" THEN appkey ELSE obj[k]],
              mentions \cup {appkey})

\* The try block: json.loads of anything but a string raises, and so does the item
\* assignment on anything but a dict; the except keeps the field as it was.
InjectInto(u, appkey) ==
    IF u.kind = "str" /\ u.json = "object" THEN DumpsWithAppkey(u.obj, u.mentions, appkey) ELSE u

Proceeds(user) == [next |-> "token", status |-> 0, user |-> user]
Raises500(user) == [next |-> "done", status |-> 500, user |-> user]

\* The appkey block of chat_completion: what req_data["user"] is afterwards and whether
\* the handler goes on to get_access_token or ends in an unhandled exception.
InjectAppkey(u, appkey) ==
    IF Falsy(u) THEN Proceeds(DumpsWithAppkey(EmptyDict, {}, appkey))
    ELSE IF appkey = "" THEN Proceeds(u)
    ELSE IF NotInRaises(u) THEN Raises500(u)
    ELSE IF NotIn(appkey, u) THEN Proceeds(InjectInto(u, appkey))
    ELSE Proceeds(u)

InjectAppkeyCall(u, appkey) ==
    /\ resolved' = [op |-> "inject_appkey", user_field |-> u, circuit_appkey |-> appkey,
                    outcome |-> InjectAppkey(u, appkey)]
    /\ UNCHANGED <<storeVars, threadVars, pipeVars, hecVars, tokenVars>>

InitUser ==
    /\ quotas = EmptyDict
    /\ usage = {}
    /\ lifecycle = [s \in Subkeys |-> NoRow]
    /\ lock = NoThread
    /\ th = [t \in Threads |-> IdleThread]
    /\ calls = 0
    /\ applied = [p \in Pairs |-> 0]
    /\ started = {}
    /\ overlap = {}
    /\ resolved = NoAnswer
    /\ names = {}
    /\ quotas_file = quotas
    /\ require_subkey = FALSE
    /\ splunk_hec = HecDisabled
    /\ hec_sink = {}
    /\ dispatched = [p \in Pairs |-> 0]
    /\ req = [r \in Reqs |-> IdleReq]
    /\ arrivals = 0
    /\ admin = 0
    /\ token_cache = EmptyCache
    /\ now = StartTime
    /\ ticks = 0
    /\ tk = [c \in TokenCallers |-> IdleTokenCaller]
    /\ tcalls = 0
    /\ creds = Configured

NextUser ==
    \E u \in UserSamples, appkey \in AppkeySamples : InjectAppkeyCall(u, appkey)

SpecUser == InitUser /\ [][NextUser]_vars

\* C28: payload mutation never fails the request. For every value of the inbound user
\* field the handler proceeds to token acquisition; an absent field becomes a JSON
\* object carrying the application key, a string holding a JSON object gets the
\* configured key merged in unless its text already holds it, and a string that is not
\* JSON, a string holding non-object JSON and a non-string value are passed through
\* unchanged.
C28_MutationNeverFails ==
    resolved.op = "inject_appkey" =>
        LET u == resolved.user_field
            appkey == resolved.circuit_appkey
            out == resolved.outcome
        IN  /\ out.next = "token"
            /\ u.kind = "absent" =>
                  out.user.kind = "str" /\ out.user.json = "object"
                  /\ out.user.obj = [k \in {"appkey"} |-> appkey]
            /\ (u.kind = "str" /\ u.json = "object" /\ appkey # "" /\ appkey \notin u.mentions) =>
                  /\ out.user.kind = "str" /\ out.user.json = "object"
                  /\ "appkey" \in DOMAIN out.user.obj /\ out.user.obj["appkey"] = appkey
                  /\ \A k \in DOMAIN u.obj \ {"appkey"} :
                        k \in DOMAIN out.user.obj /\ out.user.obj[k] = u.obj[k]
            /\ (u.kind = "str" /\ u.json \notin {"object", "empty"}) => out.user = u
            /\ (u.kind \in {"int", "bool", "dict", "list"} /\ ~Falsy(u)) => out.user = u

----------------------------------------------------------------------------
(* The pipeline with the telemetry exporter configured *)

\* Policies under which both callers are served once per model, or only one is known.
TelemetryPolicies ==
    { ("alice" :> ("gpt-4o" :> [requests |-> 1])) @@ ("bob" :> ("gpt-4o" :> [requests |-> 1])),
      "alice" :> ("gpt-4o" :> [requests |-> 1]) }

InitTelemetry ==
    /\ quotas \in TelemetryPolicies
    /\ usage = {}
    /\ lifecycle = [s \in Subkeys |-> NoRow]
    /\ lock = NoThread
    /\ th = [t \in Threads |-> IdleThread]
    /\ calls = 0
    /\ applied = [p \in Pairs |-> 0]
    /\ started = {}
    /\ overlap = {}
    /\ resolved = NoAnswer
    /\ names \in {{}, Subkeys}
    /\ quotas_file = quotas
    /\ require_subkey = FALSE
    /\ splunk_hec \in HecConfigs
    /\ hec_sink = {}
    /\ dispatched = [p \in Pairs |-> 0]
    /\ req = [r \in Reqs |-> IdleReq]
    /\ arrivals = 0
    /\ admin = 0
    /\ token_cache = EmptyCache
    /\ now = StartTime
    /\ ticks = 0
    /\ tk = [c \in TokenCallers |-> IdleTokenCaller]
    /\ tcalls = 0
    /\ creds = Configured

\* One connection served at a time; every answer of the HEC endpoint.
NextTelemetry ==
    \/ \E model \in RequestModels, subkey \in Callers : Arrive(1, "object", model, subkey)
    \/ Gates(1)
    \/ \E result \in TokenOutcomes : AcquireToken(1, result)
    \/ \E timeout \in BOOLEAN : DispatchFails(1, timeout)
    \/ \E resp \in UpstreamResponses : DispatchBuffered(1, resp)
    \/ \E resp \in UpstreamResponses : DispatchStreaming(1, resp, 3)
    \/ \E resp \in ConcurrentStreamResponses : StreamOpen(1, resp)
    \/ StreamOpenFails(1)
    \/ StreamRead(1)
    \/ StreamYield(1)
    \/ StreamEnd(1)

SpecTelemetry == InitTelemetry /\ [][NextTelemetry]_vars

\* C26: send_usage_event and send_error_event never raise into the caller. With the
\* exporter disabled they return false without a POST; with the sink answering
\* non-200, timing out, refusing the connection or failing otherwise they return
\* false; and whatever the sink does, the inbound response has the status it has
\* when telemetry succeeds: the gate's status for a rejection, the upstream's for a
\* relayed answer.
C26_TelemetryNeverFailsTheRequest ==
    \A r \in Reqs :
        LET t == req[r].telemetry
        IN  t.kind # "none" =>
                /\ ~t.raised
                /\ t.returned = (HecEnabled(splunk_hec) /\ t.answer = "200")
                /\ ~HecEnabled(splunk_hec) => (t.posts = 0 /\ ~t.returned)
                /\ t.kind = "error" =>
                      /\ req[r].status \in {403, 429} /\ req[r].origin = "gateway"
                      /\ req[r].status = GateStatus(req[r].body, req[r].model, req[r].subkey)
                /\ t.kind = "usage" =>
                      /\ req[r].status = req[r].up.status /\ req[r].origin = "upstream"
                      /\ req[r].records = 1

\* C26 witness: the POST to the sink timed out while a buffered 200 was being
\* accounted; the call returned false and the caller got the upstream's 200.
C26_Witness ==
    \E r \in Reqs :
        /\ req[r].telemetry.kind = "usage"
        /\ req[r].telemetry.answer = "TimeoutException"
        /\ req[r].telemetry.posts = 1
        /\ ~req[r].telemetry.returned
        /\ req[r].path = "buffered" /\ req[r].pc = "done"
        /\ req[r].status = 200 /\ req[r].up.status = 200

\* The fields of an event that hold text.
TextFields ==
    {"sourcetype", "event_type", "error_type", "error_message", "subkey", "model",
     "friendly_name", "email", "client_ip", "x_forwarded_for"}

\* The two events agree on every field but, possibly, subkey.
SameButSubkey(e1, e2) == [e1 EXCEPT !.subkey = "-"] = [e2 EXCEPT !.subkey = "-"]

----------------------------------------------------------------------------
(* One caller's requests for one model, handled strictly one after another *)

\* Policies that give alice a requests limit of N >= 1 on gpt-4o and no token limit.
SequentialPolicies ==
    { "alice" :> ("gpt-4o" :> [requests |-> n]) : n \in 1..MaxLimit }

InitSequential ==
    /\ quotas \in SequentialPolicies
    /\ usage = {}
    /\ lifecycle = [s \in Subkeys |-> NoRow]
    /\ lock = NoThread
    /\ th = [t \in Threads |-> IdleThread]
    /\ calls = 0
    /\ applied = [p \in Pairs |-> 0]
    /\ started = {}
    /\ overlap = {}
    /\ resolved = NoAnswer
    /\ names = Subkeys
    /\ quotas_file = quotas
    /\ require_subkey \in BOOLEAN
    /\ splunk_hec = HecDisabled
    /\ hec_sink = {}
    /\ dispatched = [p \in Pairs |-> 0]
    /\ req = [r \in Reqs |-> IdleReq]
    /\ arrivals = 0
    /\ admin = 0
    /\ token_cache = EmptyCache
    /\ now = StartTime
    /\ ticks = 0
    /\ tk = [c \in TokenCallers |-> IdleTokenCaller]
    /\ tcalls = 0
    /\ creds = Configured

\* Every request is alice's for gpt-4o, arrives when the one before it is finished, gets
\* its token, and every upstream POST returns a response that is relayed to the end.
NextSequential ==
    \/ Arrive(1, "object", "gpt-4o", "alice")
    \/ Gates(1)
    \/ AcquireToken(1, TokenResult("tok1"))
    \/ \E resp \in UpstreamResponses : DispatchBuffered(1, resp)
    \/ \E resp \in UpstreamResponses, n \in FirstBodyLines : DispatchStreaming(1, resp, n)
    \/ \E resp \in StreamResponses : StreamOpen(1, resp)
    \/ StreamRead(1)
    \/ StreamYield(1)
    \/ StreamEnd(1)

SpecSequential == InitSequential /\ [][NextSequential]_vars

\* C31: with alice's requests for gpt-4o handled one after another under requests limit
\* N, the k-th request is dispatched upstream when k <= N and is answered 429 without
\* any upstream POST when k > N, whether the answers are buffered or streamed and
\* whether or not they carry usage data.
C31_SequentialQuotaExact ==
    LET N == RequestsLimit("alice", "gpt-4o")
        k == arrivals
    IN  req[1].pc \notin {"idle", "gates"} =>
            /\ k <= N => (req[1].origin # "gateway"
                          /\ (req[1].pc = "done" => req[1].posts >= 1))
            /\ k > N => (req[1].pc = "done" /\ req[1].status = 429
                         /\ req[1].origin = "gateway" /\ req[1].posts = 0)

----------------------------------------------------------------------------
(* Upstream chat POSTs per inbound request *)

\* The first upstream answer of the request was classified as an event-stream.
FirstAnswerIsStream(r) == req[r].posts >= 1 /\ IsStreamingResponse(req[r].up.ct)

\* The generator of the streamed response has issued its POST.
Reopened(r) == req[r].pc \in {"streaming", "yielded"} \/ req[r].path \in {"streamed", "disconnected", "aborted"}

\* C32: a request rejected at a gate or whose token acquisition failed issues no
\* upstream chat POST; any other request issues at most one, except that a first answer
\* classified as an event-stream is followed by exactly one more POST; and after a POST
\* has failed the request issues no further POST.
C32_NoRetryAtMostOneRedispatch ==
    \A r \in Reqs :
        /\ (RejectedAtGate(r) \/ TokenFailed(r)) => req[r].posts = 0
        /\ req[r].posts <= 2
        /\ req[r].posts = 2 <=> (FirstAnswerIsStream(r) /\ Reopened(r))
        /\ req[r].path \in {"timeout", "transport"} => (req[r].pc = "done" /\ req[r].posts = 1)
        /\ req[r].path = "aborted" => (req[r].pc = "done" /\ req[r].posts = 2)
        /\ req[r].path = "buffered" => (req[r].pc = "done" /\ req[r].posts = 1)

\* C32 witness: a request whose first answer was an event-stream has been relayed to
\* the end on its second POST, and it made exactly these two.
C32_Witness ==
    \E r \in Reqs :
        /\ req[r].pc = "done" /\ req[r].path = "streamed"
        /\ IsStreamingResponse(req[r].up.ct)
        /\ req[r].posts = 2

----------------------------------------------------------------------------
(* Concurrent requests of one caller for one model, on a store with a history *)

\* What earlier requests of alice for gpt-4o left behind: u0 of them were recorded,
\* and possibly one more was dispatched and timed out, which records nothing.
OverlapHistories ==
    { [quotas |-> q, recorded |-> u0, unrecorded |-> t] :
        q \in SequentialPolicies,
        u0 \in 0..MaxLimit, t \in 0..1 }

\* The answers the overlapping requests are given: buffered with usage, buffered
\* without, and an event-stream.
OverlapResponses ==
    { resp \in UpstreamResponses :
        \/ IsStreamingResponse(resp.ct) /\ resp.status = 200
        \/ ContainsJson(resp.ct) /\ resp.body \in {Body(TRUE, TRUE, UsagePayload(Usage3(2, 3, 5))),
                                                   Body(FALSE, FALSE, NoPayload)} }

InitOverlap ==
    \E h \in OverlapHistories :
        /\ h.recorded <= h.quotas["alice"]["gpt-4o"].requests
        /\ quotas = h.quotas
        /\ usage = IF h.recorded = 0 THEN {} ELSE {Row("alice", "gpt-4o", h.recorded, 0, 0, 0)}
        /\ lifecycle = [s \in Subkeys |-> NoRow]
        /\ lock = NoThread
        /\ th = [t \in Threads |-> IdleThread]
        /\ calls = 0
        /\ applied = [p \in Pairs |-> 0]
        /\ started = {}
        /\ overlap = {}
        /\ resolved = NoAnswer
        /\ names = Subkeys
        /\ quotas_file = quotas
        /\ require_subkey = TRUE
        /\ splunk_hec = HecDisabled
        /\ hec_sink = {}
        /\ dispatched = [p \in Pairs |-> IF p = <<"alice", "gpt-4o">>
                                         THEN h.recorded + h.unrecorded ELSE 0]
        /\ req = [r \in Reqs |-> IdleReq]
        /\ arrivals = 0
        /\ admin = 0
        /\ token_cache = EmptyCache
        /\ now = StartTime
        /\ ticks = 0
        /\ tk = [c \in TokenCallers |-> IdleTokenCaller]
        /\ tcalls = 0
        /\ creds = Configured

NextOverlap ==
    \/ \E r \in Reqs : Arrive(r, "object", "gpt-4o", "alice")
    \/ \E r \in Reqs : Gates(r)
    \/ \E r \in Reqs : AcquireToken(r, TokenResult("tok1"))
    \/ \E r \in Reqs, timeout \in BOOLEAN : DispatchFails(r, timeout)
    \/ \E r \in Reqs, resp \in OverlapResponses : DispatchBuffered(r, resp)
    \/ \E r \in Reqs, resp \in OverlapResponses : DispatchStreaming(r, resp, 3)
    \/ \E r \in Reqs, resp \in ConcurrentStreamResponses : StreamOpen(r, resp)
    \/ \E r \in Reqs : StreamOpenFails(r)
    \/ \E r \in Reqs : StreamRead(r)
    \/ \E r \in Reqs : StreamYield(r)
    \/ \E r \in Reqs : ClientDisconnects(r)
    \/ \E r \in Reqs : StreamEnd(r)

SpecOverlap == InitOverlap /\ [][NextOverlap]_vars

\* The requests counter of the pair's usage row.
RequestsUsed(s, m) == GetUsage(usage, s, m)[1]

\* Requests of s for m that are past the quota gate and have not finished: at most
\* NumRequests requests are in flight at any time.
AdmittedInFlight(s, m) ==
    {r \in Reqs : /\ req[r].subkey = s /\ req[r].model = m
                  /\ req[r].pc \in {"token", "dispatch", "stream_open", "streaming", "yielded"}}

\* C33 as stated: with at most NumRequests requests in flight and a requests limit
\* N >= 1 on the pair, the requests counter is at most N + NumRequests - 1 and so is the
\* number of requests dispatched upstream for the pair.
C33_DispatchedWithinOverConsumption ==
    \A p \in Pairs :
        (HasRequestsLimit(p[1], p[2]) /\ RequestsLimit(p[1], p[2]) >= 1) =>
            /\ RequestsUsed(p[1], p[2]) <= RequestsLimit(p[1], p[2]) + NumRequests - 1
            /\ dispatched[p] <= RequestsLimit(p[1], p[2]) + NumRequests - 1

\* C33 amended: the requests counter plus the admitted requests still in flight is at
\* most N + NumRequests - 1, so the counter never exceeds it; the number of dispatched
\* requests is bounded only through the ones that get recorded.
C33_RecordedWithinOverConsumption ==
    \A p \in Pairs :
        (HasRequestsLimit(p[1], p[2]) /\ RequestsLimit(p[1], p[2]) >= 1) =>
            /\ RequestsUsed(p[1], p[2]) + Cardinality(AdmittedInFlight(p[1], p[2]))
                   <= RequestsLimit(p[1], p[2]) + NumRequests - 1
            /\ RequestsUsed(p[1], p[2]) <= dispatched[p]

\* C33 witness: the counter stands above the limit, at N + NumRequests - 1, after
\* requests admitted together on the same read were all recorded.
C33_Witness ==
    \E p \in Pairs :
        /\ HasRequestsLimit(p[1], p[2]) /\ RequestsLimit(p[1], p[2]) >= 1
        /\ RequestsUsed(p[1], p[2]) = RequestsLimit(p[1], p[2]) + NumRequests - 1
        /\ \A r \in Reqs : req[r].pc = "done" /\ req[r].records = 1

----------------------------------------------------------------------------
(* Isolation of the usage records *)

\* The step is the commit of thread t's record_usage call.
Commits(t) == th[t].pc = "commit" /\ th'[t].pc = "idle"

\* What the store answers about the pair p on the table tbl.
AnswersAbout(tbl, p) ==
    [used |-> GetUsage(tbl, p[1], p[2]),
     allowed |-> IsRequestAllowed(quotas, tbl, p[1], p[2]),
     exceeds |-> [x \in NextTotalTokens |-> WillExceedTokens(quotas, tbl, p[1], p[2], x)]]

\* C34: record_usage(subkey, model, ...) changes the usage record of that pair only:
\* for every other subkey and every other model of the same subkey the record and the
\* answers of is_request_allowed and will_exceed_tokens are the same after the call as
\* before it, also when both models take their limit from the same wildcard entry.
C34_PerPairIsolation ==
    [][ /\ \A t \in Threads :
              Commits(t) =>
                  \A p \in Pairs \ {<<th[t].subkey, th[t].model>>} :
                      AnswersAbout(usage', p) = AnswersAbout(usage, p)
        /\ (\A t \in Threads : ~Commits(t)) => usage' = usage ]_vars

\* C34 witness: alice's two models both take their requests limit from her wildcard
\* entry; record_usage has used up one model's limit and the other is still allowed.
C34_Witness ==
    /\ Quiescent
    /\ Wildcard \in DOMAIN DictGetOrEmpty(quotas, "alice")
    /\ \A m \in Models : "requests" \notin DOMAIN DictGetOrEmpty(DictGetOrEmpty(quotas, "alice"), m)
    /\ \E m1, m2 \in Models :
          /\ m1 # m2
          /\ HasRequestsLimit("alice", m1) /\ HasRequestsLimit("alice", m2)
          /\ GetUsage(usage, "alice", m1)[1] >= RequestsLimit("alice", m1)
          /\ ~IsRequestAllowed(quotas, usage, "alice", m1)
          /\ GetUsage(usage, "alice", m2)[1] = 0
          /\ IsRequestAllowed(quotas, usage, "alice", m2)

----------------------------------------------------------------------------
(* Consistency of the token cache *)

\* The times a get_access_token call can have read on entry.
EntryTimes == StartTime..now

\* The cache holds the token and the expiry of one and the same grant.
FromOneGrant(cache) ==
    \E ans \in TokenAnswers, t \in EntryTimes :
        /\ IsGrant(ans)
        /\ cache = [access_token |-> ans.body["access_token"],
                    expires_at |-> t + GrantLifetime(ans)]

\* C35: whatever the token endpoint answers and however concurrent refreshes
\* interleave, the cached token and expires_at are both the initial empty values or
\* both come from one successful grant, and a call that fails leaves the cache as it
\* was when its answer came in.
C35_CacheFromOneGrant ==
    /\ token_cache = EmptyCache \/ FromOneGrant(token_cache)
    /\ \A c \in TokenCallers :
          (tk[c].pc = "returned" /\ tk[c].result.kind # "token") => tk[c].left = tk[c].pre

----------------------------------------------------------------------------
(* Revocation, then a restart that loads the rewritten quotas.json *)

\* The identity strings a caller can present: the subkeys, and the names of the
\* metadata entries revoke_key adds to quotas.json.
Identities == Subkeys \cup {RevokedEntry(s) : s \in Subkeys}

\* lifespan at start-up: load_quotas_from_env_or_file reads quotas.json and a new
\* QuotaManager is built on the same database; the token cache starts empty.
Lifespan ==
    /\ \A r \in Reqs : req[r].pc \in {"idle", "done"}
    /\ quotas' = quotas_file
    /\ req' = [r \in Reqs |-> IdleReq]
    /\ token_cache' = EmptyCache
    /\ UNCHANGED <<usage, lifecycle, names, quotas_file, threadVars, resolved, require_subkey, hecVars,
                   arrivals, admin, dispatched, now, ticks, tk, tcalls, creds>>

InitRevoke ==
    /\ quotas \in PipelinePolicies
    /\ usage = {}
    /\ lifecycle = [s \in Identities |-> NoRow]
    /\ lock = NoThread
    /\ th = [t \in Threads |-> IdleThread]
    /\ calls = 0
    /\ applied = [p \in Identities \X Models |-> 0]
    /\ started = {}
    /\ overlap = {}
    /\ resolved = NoAnswer
    /\ names = Subkeys
    /\ quotas_file = quotas
    /\ require_subkey = TRUE
    /\ splunk_hec = HecDisabled
    /\ hec_sink = {}
    /\ dispatched = [p \in Identities \X Models |-> 0]
    /\ req = [r \in Reqs |-> IdleReq]
    /\ arrivals = 0
    /\ admin = 0
    /\ token_cache = EmptyCache
    /\ now = StartTime
    /\ ticks = 0
    /\ tk = [c \in TokenCallers |-> IdleTokenCaller]
    /\ tcalls = 0
    /\ creds = Configured

NextRevoke ==
    \/ \E s \in Subkeys, replaced_by \in {"bob", NoKey} : RevokeKey(s, "rotation", replaced_by)
    \/ Lifespan
    \/ \E subkey \in Identities : Arrive(1, "object", "gpt-4o", subkey)
    \/ Gates(1)
    \/ AcquireToken(1, TokenResult("tok1"))
    \/ \E resp \in OverlapResponses : DispatchBuffered(1, resp)

SpecRevoke == InitRevoke /\ [][NextRevoke]_vars

\* The identities authorized under the policy and lifecycle table of the start.
AuthorizedAtStart ==
    {i \in Identities : \E q \in PipelinePolicies :
                            IsSubkeyAuthorized(q, [s \in Identities |-> NoRow], i)}

\* C36: once a key has been revoked and the policy reloaded from the rewritten
\* quotas.json, every identity that was unauthorized before is still unauthorized, and
\* no identity other than those authorized before has a policy entry under which
\* is_request_allowed returns true, the metadata entry of the revocation included.
C36_RevocationNeverWidensAccess ==
    ((\E s \in Subkeys : Revoked(s)) /\ quotas = quotas_file) =>
        \A i \in Identities \ AuthorizedAtStart :
            /\ ~IsSubkeyAuthorized(quotas, lifecycle, i)
            /\ ~(i \in DOMAIN quotas /\ \E m \in Models : IsRequestAllowed(quotas, usage, i, m))

----------------------------------------------------------------------------
(* Requests without an identity *)

\* Request r carries no identity and none is required; it has a JSON object with a model.
Anonymous(r) ==
    /\ ~require_subkey
    /\ req[r].body = "object" /\ req[r].model # NoModel /\ req[r].subkey = NoSubkey

\* C37: with identity not required, every step of a request that carries none leaves
\* the usage table as it is; the request passes the gates without the store being
\* read and without a rejection, goes on to the token and, given one, to the upstream
\* dispatch, and it never calls record_usage.
C37_AnonymousSkipsGatesAndRecording ==
    [][ \A r \in Reqs :
          (Anonymous(r) /\ req[r].pc \notin {"idle", "done"} /\ req'[r] # req[r]) =>
              /\ usage' = usage
              /\ req'[r].records = 0
              /\ req[r].pc = "gates" =>
                    /\ req'[r].pc = "token" /\ req'[r].status = 0
                    /\ req'[r].lc_at_gate = "-" /\ req'[r].used_at_gate = -1
              /\ (req[r].pc = "token" /\ req'[r].token.kind = "token") => req'[r].pc = "dispatch" ]_vars

\* C37 witness: a request without identity was relayed the upstream's buffered 200
\* with usage in it, and the usage table is still empty.
C37_Witness ==
    \E r \in Reqs :
        /\ Anonymous(r)
        /\ req[r].pc = "done" /\ req[r].path = "buffered" /\ req[r].posts = 1
        /\ req[r].status = 200 /\ req[r].origin = "upstream"
        /\ ExtractUsage(req[r].up.ct, req[r].up.body) = <<2, 3, 5>>
        /\ req[r].records = 0
        /\ usage = {}

----------------------------------------------------------------------------
(* Refused revocations *)

\* The step is a run of revoke_key.
RevokeKeyRuns == admin' # admin /\ resolved'.op = "revoke_key"

\* C38: revoke_key returns true only for a key that has a name record and whose
\* lifecycle state is active, by a row or by the absence of one; for a key without a
\* name record or already revoked or replaced it returns false and leaves the
\* lifecycle table and quotas.json as they were, so that the reason and the successor
\* written by the first revocation stay.
C38_RevokeOnlyKnownActive ==
    [][ RevokeKeyRuns =>
          LET s == resolved'.subkey
          IN  /\ resolved'.result =>
                    /\ s \in names /\ ~Revoked(s)
                    /\ lifecycle'[s].status \in {"revoked", "replaced"}
                    /\ lifecycle'[s].revoke_reason = resolved'.reason
              /\ (s \notin names \/ Revoked(s)) =>
                    /\ ~resolved'.result
                    /\ lifecycle' = lifecycle
                    /\ quotas_file' = quotas_file
              /\ (s \in names /\ ~Revoked(s)) => resolved'.result ]_vars

\* C38 witness: alice had been replaced by bob for the reason "compromised"; a second
\* revocation of alice, for another reason and without successor, returned false, and
\* the first reason and successor are still in her row.
C38_Witness ==
    /\ resolved.op = "revoke_key" /\ resolved.subkey = "alice"
    /\ resolved.reason = "rotation" /\ resolved.replaced_by = NoKey
    /\ ~resolved.result
    /\ lifecycle["alice"] = [status |-> "replaced", revoke_reason |-> "compromised",
                             replaced_by |-> "bob", replaces |-> NoKey]
    /\ quotas_file = quotas

----------------------------------------------------------------------------
(* Rotations: the --replace command of rotate_key.py, one key succeeding another *)

RotationKeys == Subkeys \cup {"carol"}

\* key_lifecycle before the tool runs: empty, or as one earlier replacement of
\* alice by bob left it.
RotationSamples ==
    { [s \in RotationKeys |-> NoRow],
      [s \in RotationKeys |->
          IF s = "alice" THEN [status |-> "replaced", revoke_reason |-> "compromised",
                               replaced_by |-> "bob", replaces |-> NoKey]
          ELSE IF s = "bob" THEN [status |-> "active", revoke_reason |-> "-",
                                  replaced_by |-> NoKey, replaces |-> "alice"]
          ELSE NoRow] }

\* main, --replace OLD NEW: both keys need a name record; revoke_key(old,
\* replaced_by=new) and, when it returned True, activate_key(new, replaces=old).
ReplaceKey(old_key, new_key, reason) ==
    /\ admin < MaxAdmin
    /\ admin' = admin + 1
    /\ LET revoked == /\ old_key \in names
                      /\ new_key \in names
                      /\ KeyStatus(lifecycle, old_key) = "active"
       IN  /\ resolved' = [op |-> "replace", subkey |-> old_key, reason |-> reason,
                           replaced_by |-> new_key, result |-> revoked]
           /\ IF ~revoked
              THEN UNCHANGED <<lifecycle, quotas_file>>
              ELSE /\ lifecycle' =
                        [lifecycle EXCEPT
                            ![old_key] = [status |-> "replaced", revoke_reason |-> reason,
                                          replaced_by |-> new_key, replaces |-> NoKey],
                            ![new_key] = [status |-> "active", revoke_reason |-> "-",
                                          replaced_by |-> NoKey, replaces |-> old_key]]
                   /\ quotas_file' = RevokedQuotas(quotas_file, old_key, reason)
    /\ UNCHANGED <<quotas, usage, names, threadVars, tokenVars, require_subkey, hecVars,
                   req, arrivals, dispatched>>

InitRotate ==
    /\ quotas \in PipelinePolicies
    /\ usage = {}
    /\ lifecycle \in RotationSamples
    /\ lock = NoThread
    /\ th = [t \in Threads |-> IdleThread]
    /\ calls = 0
    /\ applied = [p \in Pairs |-> 0]
    /\ started = {}
    /\ overlap = {}
    /\ resolved = NoAnswer
    /\ names \in {RotationKeys, RotationKeys \ {"carol"}}
    /\ quotas_file = quotas
    /\ require_subkey = TRUE
    /\ splunk_hec = HecDisabled
    /\ hec_sink = {}
    /\ dispatched = [p \in Pairs |-> 0]
    /\ req = [r \in Reqs |-> IdleReq]
    /\ arrivals = 0
    /\ admin = 0
    /\ token_cache = EmptyCache
    /\ now = StartTime
    /\ ticks = 0
    /\ tk = [c \in TokenCallers |-> IdleTokenCaller]
    /\ tcalls = 0
    /\ creds = Configured

\* The rotation tool beside one connection served on the buffered path.
NextRotate ==
    \/ \E old_key \in RotationKeys : \E new_key \in RotationKeys \ {old_key} :
          ReplaceKey(old_key, new_key, "rotation")
    \/ \E subkey \in Subkeys : Arrive(1, "object", "gpt-4o", subkey)
    \/ Gates(1)
    \/ AcquireToken(1, TokenResult("tok1"))
    \/ \E resp \in OverlapResponses : DispatchBuffered(1, resp)

SpecRotate == InitRotate /\ [][NextRotate]_vars

\* C39: succession links are mutually inverse. After any sequence of rotations, for
\* all keys a and b the record of a has replaced_by = b exactly when the record of b
\* has replaces = a; a key with a successor has status replaced, and the successor
\* is active unless it has been rotated itself.
C39_SuccessionLinksInverse ==
    \A a, b \in RotationKeys :
        /\ (lifecycle[a].replaced_by = b) <=> (lifecycle[b].replaces = a)
        /\ lifecycle[a].replaced_by = b =>
              /\ lifecycle[a].status = "replaced"
              /\ lifecycle[b].status \in {"active", "replaced"}
              /\ lifecycle[b].status = "replaced" => lifecycle[b].replaced_by # NoKey

====
